---- MODULE Spec2Model ----
(***************************************************************************)
(* VoidRunner: the wave engine (SpawnManager) and the play session         *)
(* (PlayingState) that drives it.                                          *)
(*                                                                         *)
(* Times are integers in microseconds (2.0 s = 2000000).  The two          *)
(* difficulty multipliers are exact fractions <<numerator, denominator>>,  *)
(* multiplied as the code multiplies them.  Geometry is not modelled: which *)
(* enemies a bullet hits, which ram the player and which leave the screen  *)
(* are inputs of a tick.                                                   *)
(***************************************************************************)
EXTENDS Integers, Sequences, FiniteSets, Bags, TLC

(* ---------------------------- bounds ------------------------------------ *)
\* highest wave the play session is followed to
MaxWave == 6
\* highest wave the SpawnManager unit harness is followed to
MaxWaveSM == 31
\* highest kill count the unit harness registers in one wave
MaxKilledSM == 14
\* spawn_timer is followed while it stays at or below this many seconds
MaxSpawnTimerSec == 2
\* the unit harness spawns at most this many regular enemies in one wave
MaxSpawnedSM == 3
\* the unit harness ticks, kills and registers kills up to this wave and only
\* advances beyond it
MaxActiveWaveSM == 10
\* a play-session wave spawns at most max_kills_this_wave plus this many
MaxSpawnSlack == 2
\* at most this many enemies are hit by player bullets in one tick
MaxHitsPerTick == 2
\* collision harness: the kill streak set before a bullet/enemy check
MaxStreak == 6
\* enemies and player bullets placed for one collision check
MaxCombatEnemies == 2
MaxCombatBullets == 2
\* enemy bullets placed for one enemy-bullet check
MaxEnemyBullets == 2
\* enemies placed for one ramming check
MaxRamEnemies == 3
\* play session with its player: highest wave it is followed to
MaxPlayWave == 1
\* play session: player bullets and enemy bullets in flight after a call
MaxFlight == 1
MaxEnemyFlight == 1
\* play session: enemies that shoot in one tick
MaxShooters == 1
\* play session: KEYDOWN events handled in one frame
MaxEvents == 1
\* play session: followed while the player has gone at most this many
\* seconds without damage
MaxQuietSec == 2
\* enemy harness: updates applied to a pair of enemies, highest boss level
MaxUpdates == 4
MaxBossLevel == 4
\* enemy harness: highest difficulty tier a shooting enemy is built on
MaxFireTier == 2
\* shooting harness: KEYDOWN events of SPACE in one frame
MaxBurst == 2
\* sprites of each group placed for one check_all_collisions call
MaxTickSprites == 1
\* kill streak built up by check_all_collisions calls in the damage harness
MaxTickStreak == 1
\* seconds without damage followed in the damage harness
MaxTimeSinceDamageSec == 6

(* ---------------------------- constants --------------------------------- *)
Second == 1000 * 1000
DTs == {Second, 2 * Second}

ENEMY_SPAWN_RATE_BASE == 2 * Second
WAVE_DIFFICULTY_MULTIPLIER_PCT == 115
MIN_SPAWN_INTERVAL == Second \div 2
WAVE_CLEAR_DELAY == 3 * Second
ENEMIES_PER_WAVE_BASE == 5
ENEMIES_PER_WAVE_INCREMENT == 2
BULLET_DAMAGE == 1
BOSS_WAVE_INTERVAL == 5
DIFFICULTY_SCALE_INTERVAL == 6
ENEMIES_ON_SCREEN_MAX == 2
ENEMY_BULLET_SPEED_SCALE == <<11, 10>>
ENEMY_FIRE_RATE_SCALE == <<9, 10>>
BOSS_BASE_HEALTH == 2
BOSS_POINTS == 100
BOSS_HEALTH_MULTIPLIER == <<3, 2>>
BOSS_BASE_FIRE_RATE == (3 * Second) \div 2
BOSS_FIRE_RATE_DECREASE == <<9, 10>>
BOSS_BULLET_SPEED_MULTIPLIER == <<11, 10>>
PLAYER_SHOOT_COOLDOWN == Second \div 4
BULLET_SPEED == 8
ENEMY_BULLET_SPEED == 4

(* ---------------------------- fractions --------------------------------- *)
RECURSIVE Pow(_, _)
Pow(b, e) == IF e = 0 THEN 1 ELSE b * Pow(b, e - 1)

One == <<1, 1>>
RMul(a, b) == <<a[1] * b[1], a[2] * b[2]>>
REq(a, b) == a[1] * b[2] = b[1] * a[2]
\* equality of fractions that may have large terms: over one denominator the
\* numerators are compared
RSame(a, b) == IF a[2] = b[2] THEN a[1] = b[1] ELSE REq(a, b)
RPow(a, e) == <<Pow(a[1], e), Pow(a[2], e)>>

(* ---------------------------- enemies ----------------------------------- *)
EnemyKinds == {"basic", "zigzag", "chaser"}

EnemyHealth(kind) == IF kind = "chaser" THEN 2 ELSE 1

\* BasicEnemy / ZigzagEnemy / ChaserEnemy as built by _spawn_enemy
NewEnemy(kind, bsm, frm) ==
    [kind |-> kind, health |-> EnemyHealth(kind), level |-> 0,
     bullet_speed_multiplier |-> bsm, fire_rate_multiplier |-> frm]

\* int(BOSS_BASE_HEALTH * BOSS_HEALTH_MULTIPLIER ** (boss_level - 1)): int()
\* drops the fraction of the product
BossHealth(boss_level) ==
    (BOSS_BASE_HEALTH * Pow(BOSS_HEALTH_MULTIPLIER[1], boss_level - 1))
        \div Pow(BOSS_HEALTH_MULTIPLIER[2], boss_level - 1)

\* BOSS_BASE_FIRE_RATE * BOSS_FIRE_RATE_DECREASE ** (boss_level - 1), in
\* microseconds, one factor at a time
RECURSIVE BossFireRate(_)
BossFireRate(boss_level) ==
    IF boss_level <= 1 THEN BOSS_BASE_FIRE_RATE
    ELSE (BossFireRate(boss_level - 1) * BOSS_FIRE_RATE_DECREASE[1])
             \div BOSS_FIRE_RATE_DECREASE[2]

\* a boss whose health does not grow with its level
NewBoss_FlatHealth(boss_level) ==
    [kind |-> "boss", health |-> BOSS_BASE_HEALTH, level |-> boss_level,
     score_value |-> BOSS_POINTS * boss_level,
     fire_rate |-> BossFireRate(boss_level),
     bullet_speed_multiplier |->
         RPow(BOSS_BULLET_SPEED_MULTIPLIER, boss_level - 1),
     fire_rate_multiplier |-> One]

\* BossEnemy(x, y, sprite, boss_level): the fire-rate multiplier is the base
\* class default 1.0; health, score value, firing period and bullet speed
\* multiplier are set from the level
NewBoss(boss_level) ==
    [kind |-> "boss", health |-> BossHealth(boss_level), level |-> boss_level,
     score_value |-> BOSS_POINTS * boss_level,
     fire_rate |-> BossFireRate(boss_level),
     bullet_speed_multiplier |->
         RPow(BOSS_BULLET_SPEED_MULTIPLIER, boss_level - 1),
     fire_rate_multiplier |-> One]

IsBoss(e) == e.kind = "boss"

\* len(enemy_group)
GroupLen(g) == BagCardinality(g)

\* number of BossEnemy instances in the group
BossCount(g) ==
    LET Bs == {e \in BagToSet(g) : IsBoss(e)}
        RECURSIVE Sum(_)
        Sum(S) == IF S = {} THEN 0
                  ELSE LET e == CHOOSE x \in S : TRUE
                       IN CopiesIn(e, g) + Sum(S \ {e})
    IN Sum(Bs)

AddToGroup(g, e) == g (+) SetToBag({e})
RemoveFromGroup(g, e) == g (-) SetToBag({e})

(* ---------------------------- SpawnManager ------------------------------ *)
VARIABLES sm, enemies, in_wave_transition, wave_transition_timer, game_over,
          op, advance_calls, waves_completed, boss_level_at_wave_start,
          player, cm, ret, ps, dm, game, hist, foe

vars == <<sm, enemies, in_wave_transition, wave_transition_timer, game_over,
          op, advance_calls, waves_completed, boss_level_at_wave_start,
          player, cm, ret, ps, dm, game, hist, foe>>

\* spawn_interval for wave w: ENEMY_SPAWN_RATE_BASE / 1.15 ** (w - 1), floored
\* at 0.5 s; the quotient is taken wave by wave, truncated to a microsecond
RECURSIVE RawSpawnInterval(_)
RawSpawnInterval(w) ==
    IF w <= 1 THEN ENEMY_SPAWN_RATE_BASE
    ELSE LET p == RawSpawnInterval(w - 1)
         IN IF p < MIN_SPAWN_INTERVAL THEN p
            ELSE (p * 100) \div WAVE_DIFFICULTY_MULTIPLIER_PCT

SpawnInterval(w) ==
    IF RawSpawnInterval(w) > MIN_SPAWN_INTERVAL
    THEN RawSpawnInterval(w) ELSE MIN_SPAWN_INTERVAL

SpawnManagerInit ==
    [current_wave |-> 1,
     enemies_spawned_this_wave |-> 0,
     max_kills_this_wave |-> ENEMIES_PER_WAVE_BASE,
     enemies_killed_this_wave |-> 0,
     spawn_timer |-> 0,
     spawn_interval |-> ENEMY_SPAWN_RATE_BASE,
     max_alive |-> ENEMIES_ON_SCREEN_MAX,
     boss_spawned |-> FALSE,
     boss_killed |-> FALSE,
     boss_level |-> 0,
     difficulty_tier |-> 0,
     bullet_speed_multiplier |-> One,
     fire_rate_multiplier |-> One]

\* mutant: the answer is read from the stored boss_spawned flag
is_boss_wave_Flag(s) == s.boss_spawned

is_boss_wave(s) == s.current_wave % BOSS_WAVE_INTERVAL = 0

\* mutant: the boss is not required on boss waves
is_wave_complete_NoBoss(s, enemy_group) ==
    s.enemies_killed_this_wave >= s.max_kills_this_wave

\* mutant: the wave also waits for the enemy group to be empty
is_wave_complete_Alive(s, enemy_group) ==
    /\ s.enemies_killed_this_wave >= s.max_kills_this_wave
    /\ (is_boss_wave(s) => s.boss_killed)
    /\ enemy_group = EmptyBag

is_wave_complete(s, enemy_group) ==
    LET regular_enemies_done ==
            s.enemies_killed_this_wave >= s.max_kills_this_wave
    IN IF is_boss_wave(s)
       THEN regular_enemies_done /\ s.boss_killed
       ELSE regular_enemies_done

register_boss_killed(s) == [s EXCEPT !.boss_killed = TRUE]

register_enemy_killed(s) ==
    [s EXCEPT !.enemies_killed_this_wave = @ + 1]

\* mutant: boss waves are not excluded from scaling
ScaleDifficulty_OnBoss(s) ==
    IF s.current_wave % DIFFICULTY_SCALE_INTERVAL = 0
    THEN [s EXCEPT
            !.difficulty_tier = @ + 1,
            !.bullet_speed_multiplier = RMul(@, ENEMY_BULLET_SPEED_SCALE),
            !.fire_rate_multiplier = RMul(@, ENEMY_FIRE_RATE_SCALE)]
    ELSE s

\* mutant: the multipliers are set to the scale instead of compounded
ScaleDifficulty_Reset(s) ==
    IF s.current_wave % DIFFICULTY_SCALE_INTERVAL = 0 /\ ~is_boss_wave(s)
    THEN [s EXCEPT
            !.difficulty_tier = @ + 1,
            !.bullet_speed_multiplier = ENEMY_BULLET_SPEED_SCALE,
            !.fire_rate_multiplier = ENEMY_FIRE_RATE_SCALE]
    ELSE s

\* mutant: the interval is tested on the wave being left
ScaleDifficulty_Early(s) ==
    IF (s.current_wave - 1) % DIFFICULTY_SCALE_INTERVAL = 0 /\ ~is_boss_wave(s)
    THEN [s EXCEPT
            !.difficulty_tier = @ + 1,
            !.bullet_speed_multiplier = RMul(@, ENEMY_BULLET_SPEED_SCALE),
            !.fire_rate_multiplier = RMul(@, ENEMY_FIRE_RATE_SCALE)]
    ELSE s

\* mutant: scaling happens every boss interval
ScaleDifficulty_BossInterval(s) ==
    IF s.current_wave % BOSS_WAVE_INTERVAL = 0
    THEN [s EXCEPT
            !.difficulty_tier = @ + 1,
            !.bullet_speed_multiplier = RMul(@, ENEMY_BULLET_SPEED_SCALE),
            !.fire_rate_multiplier = RMul(@, ENEMY_FIRE_RATE_SCALE)]
    ELSE s

\* the difficulty step of advance_wave (lines 189-197), on the wave just entered
ScaleDifficulty(s) ==
    IF s.current_wave % DIFFICULTY_SCALE_INTERVAL = 0 /\ ~is_boss_wave(s)
    THEN [s EXCEPT
            !.difficulty_tier = @ + 1,
            !.bullet_speed_multiplier = RMul(@, ENEMY_BULLET_SPEED_SCALE),
            !.fire_rate_multiplier = RMul(@, ENEMY_FIRE_RATE_SCALE)]
    ELSE s

\* mutant: the boss flags are not reset and the quota is not recomputed
advance_wave_KeepFlags(s) ==
    LET w == s.current_wave + 1
        s1 == [s EXCEPT !.current_wave = w, !.enemies_killed_this_wave = 0]
        s2 == ScaleDifficulty(s1)
    IN [s2 EXCEPT
          !.spawn_interval = SpawnInterval(w),
          !.enemies_spawned_this_wave = 0,
          !.spawn_timer = 0]

advance_wave(s) ==
    LET w == s.current_wave + 1
        s1 == [s EXCEPT
                 !.current_wave = w,
                 !.enemies_killed_this_wave = 0,
                 !.boss_spawned = FALSE,
                 !.boss_killed = FALSE,
                 !.max_kills_this_wave =
                     ENEMIES_PER_WAVE_BASE + (w - 1) * ENEMIES_PER_WAVE_INCREMENT]
        s2 == ScaleDifficulty(s1)
    IN [s2 EXCEPT
          !.spawn_interval = SpawnInterval(w),
          !.enemies_spawned_this_wave = 0,
          !.spawn_timer = 0]

\* _spawn_boss: returns the manager and the group after the spawn
spawn_boss(s, g) ==
    LET s1 == [s EXCEPT !.boss_level = @ + 1]
    IN [sm |-> s1, enemies |-> AddToGroup(g, NewBoss(s1.boss_level))]

\* mutant: the new enemy keeps the constructor's default multipliers
spawn_enemy_Default(s, g, kind) ==
    AddToGroup(g, NewEnemy(kind, One, One))

\* _spawn_enemy with the archetype random.choices picked
spawn_enemy(s, g, kind) ==
    AddToGroup(g, NewEnemy(kind, s.bullet_speed_multiplier,
                           s.fire_rate_multiplier))

\* mutant: boss_spawned is never set, only the live scan guards the spawn
UpdateBoss_NoFlag(s, g) ==
    IF is_boss_wave(s) /\ ~s.boss_spawned
    THEN IF BossCount(g) = 0 THEN spawn_boss(s, g)
         ELSE [sm |-> s, enemies |-> g]
    ELSE [sm |-> s, enemies |-> g]

\* the boss part of update (lines 62-74)
UpdateBoss(s, g) ==
    IF is_boss_wave(s) /\ ~s.boss_spawned
    THEN LET existing_boss == BossCount(g) > 0
             r == IF ~existing_boss THEN spawn_boss(s, g)
                  ELSE [sm |-> s, enemies |-> g]
         IN [sm |-> [r.sm EXCEPT !.boss_spawned = TRUE], enemies |-> r.enemies]
    ELSE [sm |-> s, enemies |-> g]

\* mutant: the spawn is not gated by the number of enemies alive
update_NoCap(s, g, dt, kind) ==
    LET b == UpdateBoss(s, g)
        s1 == b.sm
        g1 == b.enemies
    IN IF s1.enemies_killed_this_wave >= s1.max_kills_this_wave
       THEN b
       ELSE LET s2 == [s1 EXCEPT !.spawn_timer = @ + dt]
                can_spawn == s2.enemies_killed_this_wave < s2.max_kills_this_wave
            IN IF ~can_spawn
               THEN [sm |-> s2, enemies |-> g1]
               ELSE IF s2.spawn_timer >= s2.spawn_interval
                    THEN [sm |-> [s2 EXCEPT !.spawn_timer = 0,
                                            !.enemies_spawned_this_wave = @ + 1],
                          enemies |-> spawn_enemy(s2, g1, kind)]
                    ELSE [sm |-> s2, enemies |-> g1]

\* SpawnManager.update(dt, enemy_group); kind is the archetype drawn if an
\* enemy is spawned
update(s, g, dt, kind) ==
    LET b == UpdateBoss(s, g)
        s1 == b.sm
        g1 == b.enemies
    IN IF s1.enemies_killed_this_wave >= s1.max_kills_this_wave
       THEN b
       ELSE LET s2 == [s1 EXCEPT !.spawn_timer = @ + dt]
                alive_enemies == GroupLen(g1)
                can_spawn == alive_enemies < s2.max_alive
                             /\ s2.enemies_killed_this_wave < s2.max_kills_this_wave
            IN IF ~can_spawn
               THEN [sm |-> s2, enemies |-> g1]
               ELSE IF s2.spawn_timer >= s2.spawn_interval
                    THEN [sm |-> [s2 EXCEPT !.spawn_timer = 0,
                                            !.enemies_spawned_this_wave = @ + 1],
                          enemies |-> spawn_enemy(s2, g1, kind)]
                    ELSE [sm |-> s2, enemies |-> g1]

\* the archetypes random.choices can return in this call: the draw is only
\* made when the call spawns a regular enemy
Draws(s, g, dt) ==
    IF update(s, g, dt, "basic").sm.enemies_spawned_this_wave
           # s.enemies_spawned_this_wave
    THEN EnemyKinds ELSE {"basic"}

(* ---------------------------- initial state ----------------------------- *)
(* ------------------------------- Player --------------------------------- *)
\* health is counted in half points, so that the ramming damage, 1.5 times the
\* bullet damage, is a whole number
HealthUnit == 2
PLAYER_MAX_HEALTH == 3 * HealthUnit
PLAYER_MAX_LIVES == 2
PLAYER_INVINCIBILITY_DURATION == (3 * Second) \div 2
PLAYER_HEALTH_REGEN_DELAY == 5 * Second
\* health regenerated per second
PLAYER_HEALTH_REGEN_RATE == 1 * HealthUnit
ENEMY_BULLET_DAMAGE == 1 * HealthUnit
\* config.ENEMY_BULLET_DAMAGE * 1.5
RamDamage == (ENEMY_BULLET_DAMAGE * 3) \div 2

\* Player.__init__
PlayerInit ==
    [lives |-> PLAYER_MAX_LIVES,
     health |-> PLAYER_MAX_HEALTH,
     max_health |-> PLAYER_MAX_HEALTH,
     shoot_cooldown |-> 0,
     invincible |-> FALSE,
     invincibility_timer |-> 0,
     time_since_damage |-> 0,
     kill_streak |-> 0]

is_alive(p) == p.lives > 0

add_kill_to_streak(p) == [p EXCEPT !.kill_streak = @ + 1]

\* mutant: the invincibility flag is not consulted
take_damage_NoGate(p, amount) ==
    LET p1 == [p EXCEPT !.time_since_damage = 0, !.health = @ - amount]
        hurt(q) == [player |-> [q EXCEPT !.kill_streak = 0,
                                         !.invincible = TRUE,
                                         !.invincibility_timer =
                                             PLAYER_INVINCIBILITY_DURATION],
                    died |-> FALSE]
    IN IF p1.health <= 0
       THEN LET p2 == [p1 EXCEPT !.lives = @ - 1]
            IN IF p2.lives > 0
               THEN hurt([p2 EXCEPT !.health = p2.max_health])
               ELSE [player |-> [p2 EXCEPT !.health = 0], died |-> TRUE]
       ELSE hurt(p1)

\* Player.take_damage(amount): the player after the call and the value returned
take_damage(p, amount) ==
    IF p.invincible
    THEN [player |-> p, died |-> FALSE]
    ELSE LET p1 == [p EXCEPT !.time_since_damage = 0, !.health = @ - amount]
             hurt(q) == [player |-> [q EXCEPT !.kill_streak = 0,
                                              !.invincible = TRUE,
                                              !.invincibility_timer =
                                                  PLAYER_INVINCIBILITY_DURATION],
                         died |-> FALSE]
         IN IF p1.health <= 0
            THEN LET p2 == [p1 EXCEPT !.lives = @ - 1]
                 IN IF p2.lives > 0
                    THEN hurt([p2 EXCEPT !.health = p2.max_health])
                    ELSE [player |-> [p2 EXCEPT !.health = 0], died |-> TRUE]
            ELSE hurt(p1)

_update_shooting_cooldown(p, dt) ==
    IF p.shoot_cooldown > 0 THEN [p EXCEPT !.shoot_cooldown = @ - dt] ELSE p

\* mutant: the flag is not cleared when the timer runs out
_update_invincibility_Sticky(p, dt) ==
    IF p.invincibility_timer > 0
    THEN [p EXCEPT !.invincibility_timer = @ - dt]
    ELSE p

_update_invincibility(p, dt) ==
    IF p.invincibility_timer > 0
    THEN LET t == p.invincibility_timer - dt
         IN [p EXCEPT !.invincibility_timer = t,
                      !.invincible = IF t <= 0 THEN FALSE ELSE @]
    ELSE p

\* mutant: the regeneration does not wait for the delay
_update_health_regen_NoDelay(p, dt) ==
    LET p1 == [p EXCEPT !.time_since_damage = @ + dt]
    IN IF /\ p1.health < p1.max_health
          /\ PLAYER_HEALTH_REGEN_RATE > 0
       THEN LET h == p1.health + (PLAYER_HEALTH_REGEN_RATE * dt) \div Second
            IN [p1 EXCEPT !.health = IF h < p1.max_health THEN h
                                      ELSE p1.max_health]
       ELSE p1

_update_health_regen(p, dt) ==
    LET p1 == [p EXCEPT !.time_since_damage = @ + dt]
    IN IF /\ p1.time_since_damage >= PLAYER_HEALTH_REGEN_DELAY
          /\ p1.health < p1.max_health
          /\ PLAYER_HEALTH_REGEN_RATE > 0
       THEN LET h == p1.health + (PLAYER_HEALTH_REGEN_RATE * dt) \div Second
            IN [p1 EXCEPT !.health = IF h < p1.max_health THEN h
                                      ELSE p1.max_health]
       ELSE p1

\* Player.update(dt, keys) without the position: cooldown, invincibility, regen
Player_update(p, dt) ==
    _update_health_regen(
        _update_invincibility(_update_shooting_cooldown(p, dt), dt), dt)

(* ------------------------------- Bullet --------------------------------- *)
\* a velocity is a pair of fractions; positions are not followed
Vec(x, y) == <<x, y>>

\* Bullet(x, y, velocity, owner, sprite)
Bullet(velocity, owner) ==
    [owner |-> owner, velocity |-> velocity, damage |-> BULLET_DAMAGE]

can_shoot(p) == p.shoot_cooldown <= 0

\* mutant: the cooldown is not reset by a shot
shoot_NoReset(p) ==
    [player |-> p,
     bullet |-> Bullet(Vec(<<0, 1>>, <<-BULLET_SPEED, 1>>), "player")]

\* Player.shoot(): the player after the call and the bullet returned
shoot(p) ==
    [player |-> [p EXCEPT !.shoot_cooldown = PLAYER_SHOOT_COOLDOWN],
     bullet |-> Bullet(Vec(<<0, 1>>, <<-BULLET_SPEED, 1>>), "player")]

\* Enemy.create_bullet: one bullet straight down at the scaled speed
create_bullet(e) ==
    Bullet(Vec(<<0, 1>>, RMul(<<ENEMY_BULLET_SPEED, 1>>,
                              e.bullet_speed_multiplier)), "enemy")

\* math.sin of an angle given in milliradians, in thousandths: the series
\* x - x^3/6, odd in x as math.sin is
Sin(mrad) ==
    LET m == IF mrad < 0 THEN -mrad ELSE mrad
        v == m - (m * m * m) \div 6000000
    IN IF mrad < 0 THEN -v ELSE v

\* the angles of the fan, in milliradians
PentaAngles == <<-524, -262, 0, 262, 524>>

\* mutant: the horizontal component is taken with the cosine of the angle
create_penta_shot_Cos(e) ==
    LET base_speed == RMul(<<ENEMY_BULLET_SPEED, 1>>, e.bullet_speed_multiplier)
    IN [i \in 1..Len(PentaAngles) |->
          Bullet(Vec(<<(1000 - (PentaAngles[i] * PentaAngles[i]) \div 2000)
                           * base_speed[1],
                       1000 * base_speed[2]>>,
                     base_speed), "enemy")]

\* BossEnemy.create_penta_shot: the list of bullets, one per angle
create_penta_shot(e) ==
    LET base_speed == RMul(<<ENEMY_BULLET_SPEED, 1>>, e.bullet_speed_multiplier)
    IN [i \in 1..Len(PentaAngles) |->
          Bullet(Vec(<<Sin(PentaAngles[i]) * base_speed[1],
                       1000 * base_speed[2]>>,
                     base_speed), "enemy")]

(* ----------------------------- enemy motion ----------------------------- *)
\* positions are in thousandths of a pixel, velocities in thousandths of a
\* pixel per frame of the 60 FPS reference
ENEMY_BASE_SPEED == 2000
SCREEN_WIDTH == 800
SCREEN_HEIGHT == 600
\* half the side of the sprite the enemies are built with
SPRITE_HALF == 32
BASIC_ENEMY_SPEED_MULT == One
ZIGZAG_ENEMY_SPEED_MULT == <<12, 10>>
\* ZigzagEnemy.amplitude in pixels and ZigzagEnemy.frequency
amplitude == 120
frequency == <<5, 2>>

\* math.cos of an angle given in milliradians, in thousandths: the angle is
\* brought into the first quadrant and the series 1 - x^2/2 + x^4/24 is used
Cos(mrad) ==
    LET a == mrad % 6283
        b == IF a > 3141 THEN 6283 - a ELSE a
        c == IF b > 1570 THEN 3141 - b ELSE b
        c2 == (c * c) \div 1000
        v == 1000 - c2 \div 2 + (c2 * c2) \div 24000
    IN IF b > 1570 THEN -v ELSE v

EnemySpeed(kind) ==
    LET mult == IF kind = "zigzag" THEN ZIGZAG_ENEMY_SPEED_MULT
                ELSE BASIC_ENEMY_SPEED_MULT
    IN (ENEMY_BASE_SPEED * mult[1]) \div mult[2]

\* BasicEnemy / ZigzagEnemy at (x, y) with their motion and their shooting
\* timer: Enemy's constructor leaves the velocity at 0 and the timer at 0,
\* BasicEnemy's sets the velocity, both set can_shoot
NewMover(kind, x, y) ==
    [kind |-> kind,
     position |-> <<1000 * x, 1000 * y>>,
     velocity |-> IF kind = "basic" THEN <<0, EnemySpeed(kind)>> ELSE <<0, 0>>,
     speed |-> EnemySpeed(kind),
     time_alive |-> 0,
     can_shoot |-> TRUE,
     shoot_timer |-> 0,
     fire_rate_multiplier |-> One,
     alive |-> TRUE]

\* BossEnemy(x, y, sprite, boss_level) with its position, its horizontal
\* target and its shooting timer, which starts at the firing period
BossEnemy(x, y, boss_level) ==
    NewBoss(boss_level) @@
    [position |-> <<1000 * x, 1000 * y>>,
     velocity |-> <<0, 0>>,
     target_x |-> 1000 * x,
     time_alive |-> 0,
     can_shoot |-> TRUE,
     shoot_timer |-> NewBoss(boss_level).fire_rate,
     alive |-> TRUE]

\* mutant: the zigzag enemy drifts towards the player
update_behavior_Tracking(e, dt, player_pos) ==
    IF e.kind = "zigzag"
    THEN LET t == e.time_alive + dt
             drift == IF 1000 * player_pos[1] > e.position[1] THEN e.speed
                      ELSE -e.speed
         IN [e EXCEPT !.time_alive = t,
                      !.velocity =
                          <<amplitude * ((frequency[1]
                                * Cos((t * frequency[1]) \div (1000 * frequency[2])))
                               \div frequency[2]) + drift,
                            e.speed>>]
    ELSE e

\* update_behavior(dt, player_pos) of ZigzagEnemy and of BasicEnemy
update_behavior(e, dt, player_pos) ==
    IF e.kind = "zigzag"
    THEN LET t == e.time_alive + dt
         IN [e EXCEPT !.time_alive = t,
                      !.velocity =
                          <<amplitude * ((frequency[1]
                                * Cos((t * frequency[1]) \div (1000 * frequency[2])))
                               \div frequency[2]),
                            e.speed>>]
    ELSE e

\* target_y of BossEnemy.update_behavior, in thousandths of a pixel
BossTargetY == 1000 * 120

\* mutant: the boss keeps moving down at its approach speed
Boss_update_behavior_NoLock(e, dt, player_pos) ==
    LET dtm == dt \div 1000
        target == e.target_x
                    + (((1000 * player_pos[1] - e.target_x) \div 10) * 2 * dtm)
                          \div 100
        lerp == IF 3 * dtm < 1000 THEN 3 * dtm ELSE 1000
        x == IF lerp = 1000 THEN target
             ELSE e.position[1]
                    + (((target - e.position[1]) \div 10) * lerp) \div 100
    IN [e EXCEPT !.time_alive = @ + dt,
                 !.target_x = target,
                 !.velocity = <<0, 2000>>,
                 !.position = <<x, e.position[2]>>]

\* BossEnemy.update_behavior(dt, player_pos): the target follows the
\* player's x by the factor 2 * dt, the position follows the target by the
\* factor min(1, 3 * dt); above the offset the boss moves down, at or below
\* it the boss is put on the offset with no vertical velocity
Boss_update_behavior(e, dt, player_pos) ==
    LET dtm == dt \div 1000
        target == e.target_x
                    + (((1000 * player_pos[1] - e.target_x) \div 10) * 2 * dtm)
                          \div 100
        lerp == IF 3 * dtm < 1000 THEN 3 * dtm ELSE 1000
        x == IF lerp = 1000 THEN target
             ELSE e.position[1]
                    + (((target - e.position[1]) \div 10) * lerp) \div 100
    IN IF e.position[2] < BossTargetY
       THEN [e EXCEPT !.time_alive = @ + dt,
                      !.target_x = target,
                      !.velocity = <<0, 2000>>,
                      !.position = <<x, e.position[2]>>]
       ELSE [e EXCEPT !.time_alive = @ + dt,
                      !.target_x = target,
                      !.velocity = <<0, 0>>,
                      !.position = <<x, BossTargetY>>]

\* round() of a coordinate given in thousandths: to the nearest integer, a
\* half to the even one
Round(p) ==
    LET q == p \div 1000
        r == p % 1000
    IN IF r < 500 THEN q
       ELSE IF r > 500 THEN q + 1
       ELSE IF q % 2 = 0 THEN q ELSE q + 1

\* rect.top, rect.bottom, rect.left, rect.right: the rect is the sprite's,
\* centred on the rounded position
RectOf(e) ==
    [top |-> Round(e.position[2]) - SPRITE_HALF,
     bottom |-> Round(e.position[2]) + SPRITE_HALF,
     left |-> Round(e.position[1]) - SPRITE_HALF,
     right |-> Round(e.position[1]) + SPRITE_HALF]

\* Enemy._is_off_screen(): a boss only far below the screen, the others
\* beyond a margin of 50 on any side
_is_off_screen(e) ==
    IF e.kind = "boss"
    THEN RectOf(e).top > SCREEN_HEIGHT + 200
    ELSE \/ RectOf(e).top > SCREEN_HEIGHT + 50
         \/ RectOf(e).bottom < -50
         \/ RectOf(e).right < -50
         \/ RectOf(e).left > SCREEN_WIDTH + 50

\* Enemy.update(dt, player_pos): the behaviour of the subclass, then
\* position += velocity * dt * 60, the shooting timer while it is above 0,
\* and kill() when the enemy is off the screen
Enemy_update(e, dt, player_pos) ==
    LET b == IF e.kind = "boss" THEN Boss_update_behavior(e, dt, player_pos)
             ELSE update_behavior(e, dt, player_pos)
        m == [b EXCEPT !.position =
                   <<@[1] + ((b.velocity[1] \div 10) * (dt \div 1000) * 6) \div 10,
                     @[2] + ((b.velocity[2] \div 10) * (dt \div 1000) * 6) \div 10>>,
                       !.shoot_timer = IF @ > 0 THEN @ - dt ELSE @]
    IN [m EXCEPT !.alive = @ /\ ~_is_off_screen(m)]

\* mutant: the boss fires whenever it is asked
Boss_should_shoot_Always(e) ==
    [enemy |-> [e EXCEPT !.shoot_timer = e.fire_rate], fired |-> TRUE]

\* BossEnemy.should_shoot(): the boss after the call and the value returned
Boss_should_shoot(e) ==
    IF e.shoot_timer <= 0
    THEN [enemy |-> [e EXCEPT !.shoot_timer = e.fire_rate], fired |-> TRUE]
    ELSE [enemy |-> e, fired |-> FALSE]

\* base_cooldown of Enemy.should_shoot
base_cooldown == 2 * Second

\* mutant: the shot is drawn before the timer is looked at
should_shoot_NoTimer(e, draw) ==
    IF e.can_shoot /\ draw
    THEN [enemy |-> [e EXCEPT !.shoot_timer =
                        (base_cooldown * e.fire_rate_multiplier[1])
                            \div e.fire_rate_multiplier[2]],
          fired |-> TRUE]
    ELSE [enemy |-> e, fired |-> FALSE]

\* Enemy.should_shoot() of the enemies that are no boss: the enemy after the
\* call and the value returned; draw tells whether random.random() came
\* out below BASIC_ENEMY_SHOOT_CHANCE
should_shoot(e, draw) ==
    IF ~e.can_shoot THEN [enemy |-> e, fired |-> FALSE]
    ELSE IF e.shoot_timer <= 0 /\ draw
    THEN [enemy |-> [e EXCEPT !.shoot_timer =
                        (base_cooldown * e.fire_rate_multiplier[1])
                            \div e.fire_rate_multiplier[2]],
          fired |-> TRUE]
    ELSE [enemy |-> e, fired |-> FALSE]

\* the enemy harness before an enemy is constructed
NoFoe == [kind |-> "none"]

(* ----------------------------- DataManager ------------------------------ *)
\* DataManager.__init__: nobody is logged in; high_scores is the table
DataManagerInit == [current_user_id |-> "None", high_scores |-> << >>]

is_logged_in(d) == d.current_user_id # "None"

\* DataManager.login with a matching users row
login(d, user_id) == [d EXCEPT !.current_user_id = user_id]

\* DataManager.save_score(score): db_ok is false when sqlite3 raises an Error,
\* which the method catches
save_score(d, score, db_ok) ==
    IF ~is_logged_in(d)
    THEN [dm |-> d, ok |-> FALSE]
    ELSE IF db_ok
         THEN [dm |-> [d EXCEPT !.high_scores =
                          Append(@, [user_id |-> d.current_user_id,
                                     score |-> score])],
               ok |-> TRUE]
         ELSE [dm |-> d, ok |-> FALSE]

\* DataManager.get_high_score(): MAX(score) of the user's rows, 0 if there is
\* none, nobody is logged in or sqlite3 raises an Error
get_high_score(d, db_ok) ==
    LET mine == {d.high_scores[i].score : i \in
                    {j \in 1..Len(d.high_scores) :
                        d.high_scores[j].user_id = d.current_user_id}}
    IN IF ~is_logged_in(d) \/ ~db_ok \/ mine = {} THEN 0
       ELSE CHOOSE m \in mine : \A x \in mine : x <= m

(* -------------------------- CollisionManager ---------------------------- *)
BASIC_ENEMY_POINTS == 10
CHASER_ENEMY_POINTS == 25
ZIGZAG_ENEMY_POINTS == 20
STREAK_BONUS_THRESHOLD == 5
STREAK_BONUS_MULTIPLIER == <<3, 2>>

\* a sprite of a group: an enemy with its identity; a group is a set of sprites
\* and is visited in the order of the ids
Sprite(i, e) == [id |-> i] @@ e

Ids(g) == {e.id : e \in g}

score_value(e) ==
    CASE e.kind = "basic" -> BASIC_ENEMY_POINTS
      [] e.kind = "chaser" -> CHASER_ENEMY_POINTS
      [] e.kind = "zigzag" -> ZIGZAG_ENEMY_POINTS
      [] e.kind = "boss" -> e.score_value

\* Enemy.take_damage(amount): the enemy after the call; it reports death when
\* its health is then <= 0
enemy_take_damage(e, amount) == [e EXCEPT !.health = @ - amount]

\* mutant: the streak is read after it was incremented
Award_After(p, e) ==
    IF p.kill_streak + 1 >= STREAK_BONUS_THRESHOLD
    THEN (score_value(e) * STREAK_BONUS_MULTIPLIER[1])
             \div STREAK_BONUS_MULTIPLIER[2]
    ELSE score_value(e)

\* the points of one kill: int(base_points * STREAK_BONUS_MULTIPLIER) with the
\* streak bonus, base_points without
Award(p, e) ==
    IF p.kill_streak >= STREAK_BONUS_THRESHOLD
    THEN (score_value(e) * STREAK_BONUS_MULTIPLIER[1])
             \div STREAK_BONUS_MULTIPLIER[2]
    ELSE score_value(e)

RECURSIVE SortedSeq(_)
SortedSeq(S) ==
    IF S = {} THEN << >>
    ELSE LET m == CHOOSE x \in S : \A y \in S : x <= y
         IN <<m>> \o SortedSeq(S \ {m})

\* the enemies of hits.items(), bullet by bullet, as the two loops visit them;
\* hits[b] is the set of ids of the enemies that bullet b overlaps
RECURSIVE HitList(_, _)
HitList(hits, b) ==
    IF b > Len(hits) THEN << >>
    ELSE SortedSeq(hits[b]) \o HitList(hits, b + 1)

\* mutant: an enemy that survives the hit keeps its health
ResolveHit_NoDamage(st, i) ==
    LET e == enemy_take_damage(st.enemy[i], BULLET_DAMAGE)
    IN IF e.health <= 0
       THEN [enemy |-> [st.enemy EXCEPT ![i] = e],
             killed |-> st.killed \cup {i},
             points |-> st.points + Award(st.player, e),
             player |-> add_kill_to_streak(st.player)]
       ELSE st

\* the body of the two loops for one enemy of one bullet's list: damage, and
\* for an enemy reported dead kill(), the points and the streak
ResolveHit(st, i) ==
    LET e == enemy_take_damage(st.enemy[i], BULLET_DAMAGE)
    IN IF e.health <= 0
       THEN [enemy |-> [st.enemy EXCEPT ![i] = e],
             killed |-> st.killed \cup {i},
             points |-> st.points + Award(st.player, e),
             player |-> add_kill_to_streak(st.player)]
       ELSE [st EXCEPT !.enemy[i] = e]

\* the two loops over hits.items()
RECURSIVE ResolveHits(_, _)
ResolveHits(st, order) ==
    IF order = << >> THEN st
    ELSE ResolveHits(ResolveHit(st, Head(order)), Tail(order))

\* check_player_bullet_enemy_collisions: groupcollide removes every bullet that
\* overlaps an enemy and keeps the enemies; the loops remove the dead
check_player_bullet_enemy_collisions(player_bullets, g, hits, p) ==
    LET st == ResolveHits(
                  [enemy |-> [i \in Ids(g) |-> CHOOSE e \in g : e.id = i],
                   killed |-> {},
                   points |-> 0,
                   player |-> p],
                  HitList(hits, 1))
    IN [player_bullets |->
            player_bullets
              - Cardinality({b \in 1..player_bullets : hits[b] # {}}),
        enemies |-> {st.enemy[i] : i \in Ids(g) \ st.killed},
        points |-> st.points,
        player |-> st.player]

\* mutant: every overlapping bullet applies its own damage
check_enemy_bullet_player_collisions_PerBullet(enemy_bullets, eb_hits, p) ==
    IF eb_hits > 0 /\ ~p.invincible
    THEN LET d == take_damage(p, ENEMY_BULLET_DAMAGE * eb_hits)
         IN [enemy_bullets |-> enemy_bullets - eb_hits,
             player |-> d.player, died |-> d.died]
    ELSE [enemy_bullets |-> enemy_bullets - eb_hits,
          player |-> p, died |-> FALSE]

\* check_enemy_bullet_player_collisions: eb_hits of the enemy bullets overlap
\* the player; spritecollide removes them
check_enemy_bullet_player_collisions(enemy_bullets, eb_hits, p) ==
    IF eb_hits > 0 /\ ~p.invincible
    THEN LET d == take_damage(p, ENEMY_BULLET_DAMAGE)
         IN [enemy_bullets |-> enemy_bullets - eb_hits,
             player |-> d.player, died |-> d.died]
    ELSE [enemy_bullets |-> enemy_bullets - eb_hits,
          player |-> p, died |-> FALSE]

\* mutant: the overlapping enemies are removed only when the player is hurt
check_enemy_player_collisions_Gate(g, rams, p) ==
    LET hit == {e \in g : e.id \in rams}
    IN IF hit # {} /\ ~p.invincible
       THEN LET d == take_damage(p, RamDamage)
            IN [enemies |-> g \ hit, player |-> d.player, died |-> d.died]
       ELSE [enemies |-> g, player |-> p, died |-> FALSE]

\* check_enemy_player_collisions: rams are the ids of the sprites overlapping
\* the player; spritecollide removes those that are in the group
check_enemy_player_collisions(g, rams, p) ==
    LET hit == {e \in g : e.id \in rams}
    IN IF hit # {} /\ ~p.invincible
       THEN LET d == take_damage(p, RamDamage)
            IN [enemies |-> g \ hit, player |-> d.player, died |-> d.died]
       ELSE [enemies |-> g \ hit, player |-> p, died |-> FALSE]

\* mutant: the ramming check runs before the enemy-bullet check
check_all_collisions_RamFirst(p, player_bullets, g, enemy_bullets, hits, eb_hits, rams) ==
    LET k == check_player_bullet_enemy_collisions(player_bullets, g, hits, p)
        r == check_enemy_player_collisions(k.enemies, rams, k.player)
        b == check_enemy_bullet_player_collisions(enemy_bullets, eb_hits,
                                                  r.player)
    IN [points |-> k.points,
        player_died |-> b.died \/ r.died,
        player |-> b.player,
        player_bullets |-> k.player_bullets,
        enemies |-> r.enemies,
        enemy_bullets |-> b.enemy_bullets]

\* check_all_collisions(player, player_bullets, enemies, enemy_bullets): the
\* three checks in the order of the code, on the same player and groups
check_all_collisions(p, player_bullets, g, enemy_bullets, hits, eb_hits, rams) ==
    LET k == check_player_bullet_enemy_collisions(player_bullets, g, hits, p)
        b == check_enemy_bullet_player_collisions(enemy_bullets, eb_hits,
                                                  k.player)
        r == check_enemy_player_collisions(k.enemies, rams, b.player)
    IN [points |-> k.points,
        player_died |-> b.died \/ r.died,
        player |-> r.player,
        player_bullets |-> k.player_bullets,
        enemies |-> r.enemies,
        enemy_bullets |-> b.enemy_bullets]

\* the groups of the collision harness before any sprite is placed, and the
\* values of the last call
NoGroups ==
    [player_bullets |-> 0, enemies |-> {}, enemy_bullets |-> 0,
     hits |-> << >>, eb_hits |-> 0, rams |-> {}]

NoReturn ==
    [points |-> 0, died |-> FALSE, bullets_removed |-> 0,
     rammed |-> 0, boss_rammed |-> FALSE, invincible_before |-> FALSE]

\* PlayingState.__init__: the fields next to the spawn manager, the enemy
\* group, the player and the wave-transition fields
PlayingStateInit ==
    [score |-> 0, is_new_high_score |-> FALSE,
     player_bullets |-> EmptyBag, enemy_bullets |-> EmptyBag]

\* the game around the session: current_state is this PlayingState until a
\* restart or a return to the menu replaces it
GameInit == [running |-> TRUE, current_state |-> "PlayingState"]

\* history of the session: the save_score calls made so far, the bullets the
\* player fired in the last call, the delta time the player updates have
\* consumed since the last shot (counted up to PLAYER_SHOOT_COOLDOWN, -1
\* while there was no shot), and the keys the last call found pressed on the
\* game-over screen
NoHistory ==
    [saves |-> << >>, fired |-> << >>, since_shot |-> -1, keys |-> << >>]

Init ==
    /\ sm = SpawnManagerInit
    /\ enemies = EmptyBag
    /\ in_wave_transition = FALSE
    /\ wave_transition_timer = 0
    /\ game_over = FALSE
    /\ op = "init"
    /\ advance_calls = 0
    /\ waves_completed = 0
    /\ boss_level_at_wave_start = 0
    /\ player = PlayerInit
    /\ cm = NoGroups
    /\ ret = NoReturn
    /\ ps = PlayingStateInit
    /\ dm = DataManagerInit
    /\ game = GameInit
    /\ hist = NoHistory
    /\ foe = NoFoe

\* the rest of the play session, its data manager and the game around it
PlayFrame == UNCHANGED <<ps, dm, game, hist, foe>>

\* the player and the groups of the collision harness
CombatFrame == UNCHANGED <<player, cm, ret>> /\ PlayFrame

(* ---------------------------- unit harness ------------------------------ *)
\* the calls a test or another caller makes on a SpawnManager and its group
SessionFrame == UNCHANGED <<in_wave_transition, wave_transition_timer,
                            game_over, waves_completed>>

\* history: boss_level as it was when the current wave was entered
NoteWaveStart(advanced) ==
    boss_level_at_wave_start' =
        IF advanced THEN sm.boss_level ELSE boss_level_at_wave_start

SM_advance_wave ==
    /\ sm.current_wave < MaxWaveSM
    /\ enemies = EmptyBag
    /\ sm' = advance_wave(sm)
    /\ op' = "advance_wave"
    /\ advance_calls' = advance_calls + 1
    /\ NoteWaveStart(TRUE)
    /\ UNCHANGED enemies
    /\ SessionFrame
    /\ CombatFrame

SM_update ==
    \E dt \in DTs :
      \E kind \in Draws(sm, enemies, dt) :
        /\ sm.spawn_timer + dt <= MaxSpawnTimerSec * Second
        /\ sm.enemies_spawned_this_wave < MaxSpawnedSM
        /\ sm.current_wave <= MaxActiveWaveSM
        /\ LET r == update(sm, enemies, dt, kind)
           IN /\ sm' = r.sm
              /\ enemies' = r.enemies
        /\ op' = "update"
        /\ NoteWaveStart(FALSE)
        /\ UNCHANGED advance_calls
        /\ SessionFrame
        /\ CombatFrame

SM_register_enemy_killed ==
    /\ sm.enemies_killed_this_wave < MaxKilledSM
    /\ sm.current_wave <= MaxActiveWaveSM
    /\ sm.enemies_killed_this_wave <= sm.max_kills_this_wave
    /\ sm' = register_enemy_killed(sm)
    /\ op' = "register_enemy_killed"
    /\ NoteWaveStart(FALSE)
    /\ UNCHANGED <<enemies, advance_calls>>
    /\ SessionFrame
    /\ CombatFrame

SM_register_boss_killed ==
    /\ sm.current_wave <= MaxActiveWaveSM
    /\ sm' = register_boss_killed(sm)
    /\ op' = "register_boss_killed"
    /\ NoteWaveStart(FALSE)
    /\ UNCHANGED <<enemies, advance_calls>>
    /\ SessionFrame
    /\ CombatFrame

\* the caller removes an enemy from the group (Sprite.kill)
SM_kill ==
    \E e \in BagToSet(enemies) :
        /\ enemies' = RemoveFromGroup(enemies, e)
        /\ op' = "kill"
        /\ NoteWaveStart(FALSE)
        /\ UNCHANGED <<sm, advance_calls>>
        /\ SessionFrame
        /\ CombatFrame

NextSM ==
    \/ SM_advance_wave
    \/ SM_update
    \/ SM_register_enemy_killed
    \/ SM_register_boss_killed
    \/ SM_kill

SpecSM == Init /\ [][NextSM]_vars

(* ---------------------------- collisions -------------------------------- *)
\* the bags of at most n enemies taken from group g
RECURSIVE SubBags(_, _)
SubBags(g, n) ==
    IF n = 0 THEN {EmptyBag}
    ELSE LET P == SubBags(g, n - 1)
         IN P \cup {AddToGroup(x[1], x[2]) :
                      x \in {y \in P \X BagToSet(g) :
                                CopiesIn(y[2], y[1]) < CopiesIn(y[2], g)}}

\* Enemy.take_damage(bullet.damage) and enemy.kill() when it returns True
ApplyHit(g, e) ==
    IF e.health - BULLET_DAMAGE <= 0
    THEN RemoveFromGroup(g, e)
    ELSE AddToGroup(RemoveFromGroup(g, e),
                    [e EXCEPT !.health = @ - BULLET_DAMAGE])

RECURSIVE ApplyHits(_, _)
ApplyHits(g, hits) ==
    IF hits = EmptyBag THEN g
    ELSE LET e == CHOOSE x \in BagToSet(hits) : TRUE
         IN ApplyHits(ApplyHit(g, e), RemoveFromGroup(hits, e))

\* the enemies among hits that die of the hit
Dying(hits) ==
    LET D == {e \in BagToSet(hits) : e.health - BULLET_DAMAGE <= 0}
    IN [e \in D |-> CopiesIn(e, hits)]

\* check_all_collisions as PlayingState calls it: the kills it returns and the
\* register_boss_killed call it makes on the spawn manager
CollisionReport(s, hits) ==
    [kills |-> BagCardinality(Dying(hits)),
     sm |-> IF BossCount(Dying(hits)) > 0 THEN register_boss_killed(s) ELSE s]

(* ---------------------------- PlayingState ------------------------------ *)
_start_wave_transition ==
    /\ in_wave_transition' = TRUE
    /\ wave_transition_timer' = 0

\* PlayingState.update while game_over is set: returns at once
Update_GameOver ==
    /\ game_over
    /\ op' = "game_over"
    /\ UNCHANGED <<sm, enemies, in_wave_transition, wave_transition_timer,
                   game_over, advance_calls, waves_completed,
                   boss_level_at_wave_start>>
    /\ CombatFrame

\* mutant: the transition flag is not cleared after advance_wave
Update_Transition_NoClear ==
    \E dt \in DTs :
        /\ ~game_over
        /\ in_wave_transition
        /\ IF wave_transition_timer + dt >= WAVE_CLEAR_DELAY
           THEN /\ sm.current_wave < MaxWave
                /\ sm' = advance_wave(sm)
                /\ wave_transition_timer' = 0
                /\ advance_calls' = advance_calls + 1
                /\ op' = "advance_wave"
                /\ NoteWaveStart(TRUE)
                /\ UNCHANGED in_wave_transition
           ELSE /\ wave_transition_timer' = wave_transition_timer + dt
                /\ op' = "transition"
                /\ NoteWaveStart(FALSE)
                /\ UNCHANGED <<sm, in_wave_transition, advance_calls>>
        /\ UNCHANGED <<enemies, game_over, waves_completed>>
        /\ CombatFrame

\* PlayingState.update during a wave transition: _update_wave_transition
Update_Transition ==
    \E dt \in DTs :
        /\ ~game_over
        /\ in_wave_transition
        /\ IF wave_transition_timer + dt >= WAVE_CLEAR_DELAY
           THEN /\ sm.current_wave < MaxWave
                /\ sm' = advance_wave(sm)
                /\ in_wave_transition' = FALSE
                /\ wave_transition_timer' = 0
                /\ advance_calls' = advance_calls + 1
                /\ op' = "advance_wave"
                /\ NoteWaveStart(TRUE)
           ELSE /\ wave_transition_timer' = wave_transition_timer + dt
                /\ op' = "transition"
                /\ NoteWaveStart(FALSE)
                /\ UNCHANGED <<sm, in_wave_transition, advance_calls>>
        /\ UNCHANGED <<enemies, game_over, waves_completed>>
        /\ CombatFrame

\* PlayingState.update in play: spawner, enemy updates, collisions, wave check
Update_Play ==
    \E dt \in DTs, player_died \in BOOLEAN :
      \E kind \in Draws(sm, enemies, dt) :
        /\ ~game_over
        /\ ~in_wave_transition
        /\ sm.spawn_timer + dt <= MaxSpawnTimerSec * Second
        /\ LET sp == update(sm, enemies, dt, kind)
           IN /\ sp.sm.enemies_spawned_this_wave
                    <= sp.sm.max_kills_this_wave + MaxSpawnSlack
              /\ \E gone \in SubBags(sp.enemies, 1) :
                    /\ BossCount(gone) = 0
                    /\ LET g1 == sp.enemies (-) gone
                       IN \E hits \in SubBags(g1, MaxHitsPerTick) :
                            LET g2 == ApplyHits(g1, hits)
                            IN \E rams \in SubBags(g2, 1) :
                                 LET g3 == g2 (-) rams
                                     rep == CollisionReport(sp.sm, hits)
                                     s2 == [rep.sm EXCEPT
                                              !.enemies_killed_this_wave =
                                                  @ + rep.kills]
                                 IN /\ sm' = s2
                                    /\ game_over' = (game_over \/ player_died)
                                    /\ IF is_wave_complete(s2, g3)
                                       THEN /\ enemies' = EmptyBag
                                            /\ _start_wave_transition
                                            /\ waves_completed' =
                                                   waves_completed + 1
                                       ELSE /\ enemies' = g3
                                            /\ UNCHANGED <<in_wave_transition,
                                                           wave_transition_timer,
                                                           waves_completed>>
        /\ op' = "play"
        /\ NoteWaveStart(FALSE)
        /\ UNCHANGED advance_calls
        /\ CombatFrame

Next ==
    \/ Update_GameOver
    \/ Update_Transition
    \/ Update_Play

Spec == Init /\ [][Next]_vars

(* ------------------------- collision harness ---------------------------- *)
\* the spawn manager and the session, which the collision harness leaves alone
ManagerFrame ==
    /\ UNCHANGED <<sm, enemies, in_wave_transition, wave_transition_timer,
                   game_over, advance_calls, waves_completed,
                   boss_level_at_wave_start>>
    /\ PlayFrame

CombatKinds == EnemyKinds \cup {"boss"}

\* a freshly constructed enemy of the kind
CombatEnemy(kind) ==
    IF kind = "boss" THEN NewBoss(1) ELSE NewEnemy(kind, One, One)

\* the groups of up to n fresh enemies of the kinds
Groups(n, kinds) ==
    UNION {{{Sprite(i, CombatEnemy(f[i])) : i \in 1..m} : f \in [1..m -> kinds]}
           : m \in 0..n}

\* the ways to place b player bullets and n enemy bullets around the group g
\* and the player: which enemies each player bullet overlaps, how many enemy
\* bullets overlap the player, which enemies overlap the player
Placements(g, b, n) ==
    {[player_bullets |-> b, enemies |-> g, enemy_bullets |-> n,
      hits |-> h, eb_hits |-> k, rams |-> r] :
        h \in [1..b -> SUBSET Ids(g)], k \in 0..n, r \in SUBSET Ids(g)}

Arrangements(ne, nb, neb, kinds) ==
    UNION {Placements(g, b, n) :
             g \in Groups(ne, kinds), b \in 0..nb, n \in 0..neb}

BulletArrangements == Arrangements(0, 0, MaxEnemyBullets, {})

\* a group of n enemies that holds every kind in turn
Lineup(n) ==
    {Sprite(i, CombatEnemy(<<"boss", "chaser", "basic", "zigzag">>[
                               ((i - 1) % 4) + 1])) : i \in 1..n}

RamArrangements == UNION {Placements(Lineup(n), 0, 0) : n \in 0..MaxRamEnemies}

\* the enemy bullets placed for a whole tick all overlap the player
TickArrangements ==
    {a \in Arrangements(MaxTickSprites, MaxTickSprites, MaxTickSprites,
                        {"basic"}) : a.eb_hits = a.enemy_bullets}

DamageAmounts == {ENEMY_BULLET_DAMAGE, RamDamage, PLAYER_MAX_HEALTH}

\* a test sets the streak and adds bullets and enemies to the groups
CM_place_sprites ==
    /\ op = "init"
    /\ \E streak \in 0..MaxStreak, b \in 0..MaxCombatBullets,
          g \in Groups(MaxCombatEnemies, CombatKinds) :
         \E h \in [1..b -> SUBSET Ids(g)] :
           /\ player' = [player EXCEPT !.kill_streak = streak]
           /\ cm' = [NoGroups EXCEPT !.player_bullets = b, !.enemies = g,
                                     !.hits = h]
    /\ op' = "place_sprites"
    /\ UNCHANGED ret
    /\ ManagerFrame

CM_check_player_bullet_enemy_collisions ==
    /\ op = "place_sprites"
    /\ LET r == check_player_bullet_enemy_collisions(
                    cm.player_bullets, cm.enemies, cm.hits, player)
       IN /\ player' = r.player
          /\ cm' = [cm EXCEPT !.player_bullets = r.player_bullets,
                              !.enemies = r.enemies]
          /\ ret' = [NoReturn EXCEPT !.points = r.points]
    /\ op' = "check_player_bullet_enemy_collisions"
    /\ ManagerFrame

NextKills ==
    \/ CM_place_sprites
    \/ CM_check_player_bullet_enemy_collisions

SpecKills == Init /\ [][NextKills]_vars

(* --------------------------- damage harness ----------------------------- *)
\* the calls made on one Player while it is alive; the groups of each
\* collision check are placed for that call
P_take_damage ==
    /\ is_alive(player)
    /\ \E amount \in DamageAmounts :
           /\ LET d == take_damage(player, amount)
              IN /\ player' = d.player
                 /\ ret' = [NoReturn EXCEPT !.died = d.died,
                                            !.invincible_before =
                                                player.invincible]
           /\ op' = "take_damage"
           /\ UNCHANGED cm
           /\ ManagerFrame

P_update ==
    /\ is_alive(player)
    /\ \E dt \in DTs :
           /\ player.time_since_damage + dt <= MaxTimeSinceDamageSec * Second
           /\ player' = Player_update(player, dt)
           /\ ret' = NoReturn
           /\ op' = "player_update"
           /\ UNCHANGED cm
           /\ ManagerFrame

CM_check_enemy_bullet_player_collisions ==
    /\ is_alive(player)
    /\ \E a \in BulletArrangements :
           /\ LET r == check_enemy_bullet_player_collisions(
                           a.enemy_bullets, a.eb_hits, player)
              IN /\ player' = r.player
                 /\ ret' = [NoReturn EXCEPT !.died = r.died,
                                            !.bullets_removed =
                                                a.enemy_bullets - r.enemy_bullets,
                                            !.invincible_before =
                                                player.invincible]
           /\ op' = "check_enemy_bullet_player_collisions"
           /\ UNCHANGED cm
           /\ ManagerFrame

CM_check_enemy_player_collisions ==
    /\ is_alive(player)
    /\ \E a \in RamArrangements :
           /\ LET r == check_enemy_player_collisions(a.enemies, a.rams, player)
                  gone == a.enemies \ r.enemies
              IN /\ player' = r.player
                 /\ ret' = [NoReturn EXCEPT !.died = r.died,
                                            !.rammed = Cardinality(gone),
                                            !.boss_rammed =
                                                \E e \in gone : IsBoss(e),
                                            !.invincible_before =
                                                player.invincible]
           /\ op' = "check_enemy_player_collisions"
           /\ UNCHANGED cm
           /\ ManagerFrame

CM_check_all_collisions ==
    /\ is_alive(player)
    /\ \E a \in TickArrangements :
         \E k \in {check_player_bullet_enemy_collisions(
                       a.player_bullets, a.enemies, a.hits, player)},
            r \in {check_all_collisions(player, a.player_bullets, a.enemies,
                                        a.enemy_bullets, a.hits, a.eb_hits,
                                        a.rams)} :
           /\ r.player.kill_streak <= MaxTickStreak
           /\ player' = r.player
           /\ ret' = [points |-> r.points,
                      died |-> r.player_died,
                      bullets_removed |-> a.enemy_bullets - r.enemy_bullets,
                      rammed |-> Cardinality(k.enemies \ r.enemies),
                      boss_rammed |-> \E e \in k.enemies \ r.enemies : IsBoss(e),
                      invincible_before |-> player.invincible]
    /\ op' = "check_all_collisions"
    /\ UNCHANGED cm
    /\ ManagerFrame

NextDamage ==
    \/ P_take_damage
    \/ P_update
    \/ CM_check_enemy_bullet_player_collisions
    \/ CM_check_enemy_player_collisions
    \/ CM_check_all_collisions

SpecDamage == Init /\ [][NextDamage]_vars

(* ---------------------------- the play session -------------------------- *)
\* one PlayingState with its player, its bullets, its score and the data
\* manager, from its construction until a restart or a return to the menu
\* replaces it

\* the archetypes random.choices draws in the session
PlayKinds == {"basic"}

\* the users table and the rows of high_scores before the session
Users == {"u1"}
EarlierScores == {<<[user_id |-> "u1", score |-> 15]>>}

\* PlayingState as one record
This ==
    [spawn_manager |-> sm, enemies |-> enemies, player |-> player,
     player_bullets |-> ps.player_bullets,
     enemy_bullets |-> ps.enemy_bullets,
     score |-> ps.score, game_over |-> game_over,
     wave_transition_timer |-> wave_transition_timer,
     in_wave_transition |-> in_wave_transition,
     is_new_high_score |-> ps.is_new_high_score]

\* the sprites of a group, one after the other
RECURSIVE BagSeq(_)
BagSeq(g) ==
    IF g = EmptyBag THEN << >>
    ELSE LET e == CHOOSE x \in BagToSet(g) : TRUE
         IN <<e>> \o BagSeq(RemoveFromGroup(g, e))

AsSprites(g) == {Sprite(i, BagSeq(g)[i]) : i \in 1..Len(BagSeq(g))}

RECURSIVE AsGroup(_)
AsGroup(S) ==
    IF S = {} THEN EmptyBag
    ELSE LET x == CHOOSE y \in S : TRUE
         IN AddToGroup(AsGroup(S \ {x}),
                       [f \in DOMAIN x \ {"id"} |-> x[f]])

RECURSIVE SeqToBag(_)
SeqToBag(q) ==
    IF q = << >> THEN EmptyBag ELSE SetToBag({Head(q)}) (+) SeqToBag(Tail(q))

\* the bullets added for the enemies whose should_shoot() is true: a list from
\* the boss, a single bullet from the others
RECURSIVE Volley(_)
Volley(shooters) ==
    IF shooters = EmptyBag THEN EmptyBag
    ELSE LET e == CHOOSE x \in BagToSet(shooters) : TRUE
         IN (IF IsBoss(e) THEN SeqToBag(create_penta_shot(e))
             ELSE SetToBag({create_bullet(e)}))
            (+) Volley(RemoveFromGroup(shooters, e))

\* a shot as the history keeps it: the bullet, the cooldown can_shoot() saw
\* and the delta time the player update of the same call consumed before it
Shot(p, elapsed) ==
    [bullet |-> shoot(p).bullet, cooldown |-> p.shoot_cooldown,
     elapsed |-> elapsed]

\* handle_events for one KEYDOWN event
HandleKey(st, key) ==
    IF st.this.game_over
    THEN CASE key = "K_r" ->
                [st EXCEPT !.game.current_state = "PlayingState (restarted)"]
           [] key = "K_m" -> [st EXCEPT !.game.current_state = "MenuState"]
           [] key = "K_ESCAPE" -> [st EXCEPT !.game.running = FALSE]
           [] OTHER -> st
    ELSE IF key = "K_SPACE" /\ can_shoot(st.this.player)
         THEN [st EXCEPT !.this.player = shoot(@).player,
                         !.this.player_bullets =
                             @ (+) SetToBag({shoot(st.this.player).bullet}),
                         !.fired = Append(@, Shot(st.this.player, 0))]
         ELSE st

\* PlayingState.handle_events(events): the loop over the events
RECURSIVE handle_events(_, _)
handle_events(st, keys) ==
    IF keys = << >> THEN st
    ELSE handle_events(HandleKey(st, Head(keys)), Tail(keys))

\* Game._handle_global_events for one KEYDOWN event: only a state with a
\* game_over attribute that is set (this PlayingState) makes ESC and R act
GlobalKey(g, s, key) ==
    IF g.current_state = "PlayingState" /\ s.game_over
    THEN CASE key = "K_ESCAPE" -> [g EXCEPT !.running = FALSE]
           [] key = "K_r" -> [g EXCEPT !.current_state = "MenuState"]
           [] OTHER -> g
    ELSE g

\* Game._handle_global_events(events): the loop over the events
RECURSIVE _handle_global_events(_, _, _)
_handle_global_events(g, s, keys) ==
    IF keys = << >> THEN g
    ELSE _handle_global_events(GlobalKey(g, s, Head(keys)), s, Tail(keys))

\* MenuState.handle_events for one KEYDOWN event: SPACE starts a game with a
\* new PlayingState, ESC logs out and shows the login screen
MenuKey(st, key) ==
    CASE key = "K_SPACE" ->
           [st EXCEPT !.game.current_state = "PlayingState (started)"]
      [] key = "K_ESCAPE" ->
           [st EXCEPT !.dm.current_user_id = "None",
                      !.game.current_state = "LoginState"]
      [] OTHER -> st

\* MenuState.handle_events(events): the loop over the events, which this
\* menu goes through to the end whatever state an event installs
RECURSIVE MenuState_handle_events(_, _)
MenuState_handle_events(st, keys) ==
    IF keys = << >> THEN st
    ELSE MenuState_handle_events(MenuKey(st, Head(keys)), Tail(keys))

\* the events of one frame of Game.run: the global handler first, then the
\* handler of the state that is current after it
run_handle_events(st, keys) ==
    LET st1 == [st EXCEPT !.game = _handle_global_events(@, st.this, keys)]
    IN IF st1.game.current_state = "PlayingState"
       THEN handle_events(st1, keys)
       ELSE MenuState_handle_events(st1, keys)

\* lines 121-129: the shot of the held key, p1 being the updated player
HeldFire(p1, fire) ==
    IF fire /\ can_shoot(p1)
    THEN [player |-> shoot(p1).player, bullets |-> SetToBag({shoot(p1).bullet})]
    ELSE [player |-> p1, bullets |-> EmptyBag]

\* lines 118-159 once the player and the spawner are updated: h is the held
\* fire, sp what SpawnManager.update returned
Moved(s, in, h, sp) ==
    [s EXCEPT
       !.player = h.player,
       !.player_bullets = (@ (+) h.bullets) (-) in.left.player_bullets,
       !.spawn_manager = sp.sm,
       !.enemies = sp.enemies (-) in.left.enemies,
       !.enemy_bullets = (@ (-) in.left.enemy_bullets) (+) Volley(in.shooters)]

\* the first part of update in play, lines 118-159: the player update, the
\* held-key shot, the spawner, the bullets and the enemies.  in.fire is
\* keys[K_SPACE], in.kind the archetype drawn if an enemy is spawned, in.left
\* the sprites that leave the screen in their update and in.shooters the
\* enemies that shoot
Advance(s, dt, in) ==
    Moved(s, in, HeldFire(Player_update(s.player, dt), in.fire),
          update(s.spawn_manager, s.enemies, dt, in.kind))

\* the shot of the held key
HeldShot(s, dt, in) ==
    IF in.fire /\ can_shoot(Player_update(s.player, dt))
    THEN <<Shot(Player_update(s.player, dt), dt)>>
    ELSE << >>

\* the enemies that the player bullets of a tick overlap
HitBag(S, hits) ==
    AsGroup({e \in S : \E b \in 1..Len(hits) : e.id \in hits[b]})

\* n bullets of the player
PlayerBullets(n) ==
    IF n > 0 THEN [b \in {shoot(PlayerInit).bullet} |-> n] ELSE EmptyBag

\* what update returns to the history when it only returns
Quiet(s, d) ==
    [this |-> s, dm |-> d, saves |-> << >>, fired |-> << >>,
     player_died |-> FALSE, kills |-> 0]

\* mutant: the score is saved before the points of the tick are added
Outcome_SaveEarly(s, d, in, c, rep) ==
    LET s1 == [s EXCEPT
                 !.player = c.player,
                 !.player_bullets = PlayerBullets(c.player_bullets),
                 !.enemies = AsGroup(c.enemies),
                 !.enemy_bullets = @ (-) in.eb_hits,
                 !.spawn_manager =
                     [rep.sm EXCEPT !.enemies_killed_this_wave = @ + rep.kills],
                 !.score = @ + c.points]
        previous_high_score == get_high_score(d, in.db_ok)
        sv == save_score(d, s.score, in.db_ok)
    IN IF c.player_died
       THEN [Quiet([s1 EXCEPT !.game_over = TRUE,
                              !.is_new_high_score =
                                  IF s1.score > previous_high_score
                                  THEN TRUE ELSE @], sv.dm)
                EXCEPT !.saves = <<[score |-> s.score, ok |-> sv.ok]>>,
                       !.player_died = TRUE, !.kills = rep.kills]
       ELSE [Quiet(s1, d) EXCEPT !.kills = rep.kills]

\* lines 161-184 once check_all_collisions has returned c and reported rep:
\* the kills and the score, the game over with its save
Outcome(s, d, in, c, rep) ==
    LET s1 == [s EXCEPT
                 !.player = c.player,
                 !.player_bullets = PlayerBullets(c.player_bullets),
                 !.enemies = AsGroup(c.enemies),
                 !.enemy_bullets = @ (-) in.eb_hits,
                 !.spawn_manager =
                     [rep.sm EXCEPT !.enemies_killed_this_wave = @ + rep.kills],
                 !.score = @ + c.points]
        previous_high_score == get_high_score(d, in.db_ok)
        sv == save_score(d, s1.score, in.db_ok)
    IN IF c.player_died
       THEN [Quiet([s1 EXCEPT !.game_over = TRUE,
                              !.is_new_high_score =
                                  IF s1.score > previous_high_score
                                  THEN TRUE ELSE @], sv.dm)
                EXCEPT !.saves = <<[score |-> s1.score, ok |-> sv.ok]>>,
                       !.player_died = TRUE, !.kills = rep.kills]
       ELSE [Quiet(s1, d) EXCEPT !.kills = rep.kills]

\* update in play, lines 161-184: the collisions, the kills and the score,
\* the game over with its save.  in.hits, in.eb_hits and in.rams say what
\* overlaps what, in.db_ok whether the database answers
Collide(s, d, in) ==
    Outcome(s, d, in,
            check_all_collisions(
                s.player, BagCardinality(s.player_bullets),
                AsSprites(s.enemies), BagCardinality(s.enemy_bullets),
                in.hits, BagCardinality(in.eb_hits), in.rams),
            CollisionReport(s.spawn_manager,
                            HitBag(AsSprites(s.enemies), in.hits)))

\* lines 186-195 with the answer of is_wave_complete: on a complete wave
\* every bullet and enemy is killed and the transition starts (the line
\* before them assigns a new attribute hp, which nothing reads; health is
\* left as it is)
WaveCheckIf(r, complete) ==
    IF complete
    THEN [r EXCEPT !.this.player_bullets = EmptyBag,
                   !.this.enemy_bullets = EmptyBag,
                   !.this.enemies = EmptyBag,
                   !.this.in_wave_transition = TRUE,
                   !.this.wave_transition_timer = 0]
    ELSE r

WaveCheck(r) ==
    WaveCheckIf(r, is_wave_complete(r.this.spawn_manager, r.this.enemies))

\* mutant: the wave completion is evaluated before the collisions
Resolve_CheckFirst(s, d, in) ==
    WaveCheckIf(Collide(s, d, in),
                is_wave_complete(s.spawn_manager, s.enemies))

\* the second part of update in play: collisions, then the wave check
Resolve(s, d, in) == WaveCheck(Collide(s, d, in))

\* mutant: the wave is advanced by the first update of the transition
_update_wave_transition_NoDelay(s, dt) ==
    [s EXCEPT !.spawn_manager = advance_wave(@),
              !.in_wave_transition = FALSE,
              !.wave_transition_timer = 0]

\* _update_wave_transition
_update_wave_transition(s, dt) ==
    LET t == s.wave_transition_timer + dt
    IN IF t >= WAVE_CLEAR_DELAY
       THEN [s EXCEPT !.spawn_manager = advance_wave(@),
                      !.in_wave_transition = FALSE,
                      !.wave_transition_timer = 0]
       ELSE [s EXCEPT !.wave_transition_timer = t]

\* mutant: the game-over return is missing
PlayingState_update_NoReturn(s, d, dt, in) ==
    IF s.in_wave_transition
    THEN Quiet(_update_wave_transition(s, dt), d)
    ELSE [Resolve(Advance(s, dt, in), d, in)
             EXCEPT !.fired = HeldShot(s, dt, in)]

\* PlayingState.update(dt): the session and the data manager after the call,
\* the save_score calls and the shots it made, what the collision check
\* returned
PlayingState_update(s, d, dt, in) ==
    IF s.game_over
    THEN Quiet(s, d)
    ELSE IF s.in_wave_transition
         THEN Quiet(_update_wave_transition(s, dt), d)
         ELSE [Resolve(Advance(s, dt, in), d, in)
                  EXCEPT !.fired = HeldShot(s, dt, in)]

\* the KEYDOWN keys handle_events looks at
Keys == {"K_SPACE", "K_r", "K_m", "K_ESCAPE"}

RECURSIVE KeyLists(_)
KeyLists(n) ==
    IF n = 0 THEN {<< >>}
    ELSE KeyLists(n - 1)
         \cup {Append(q, k) : q \in {x \in KeyLists(n - 1) : Len(x) = n - 1},
                              k \in Keys}

\* no sprite leaves, no enemy shoots, nothing overlaps
NoneLeft ==
    [player_bullets |-> EmptyBag, enemies |-> EmptyBag,
     enemy_bullets |-> EmptyBag]

Calm(s, fire) ==
    [fire |-> fire, kind |-> "basic", left |-> NoneLeft, shooters |-> EmptyBag,
     hits |-> [b \in 1..BagCardinality(s.player_bullets) |-> {}],
     eb_hits |-> EmptyBag, rams |-> {}, db_ok |-> TRUE]

\* this PlayingState is the current state of a running game; the menu that
\* constructs it is only reached after a login
Running ==
    /\ game.running
    /\ game.current_state = "PlayingState"
    /\ is_logged_in(dm)

\* history: the player-update time between a shot and the one before it
\* (-1: there was none before), for the shots of one call
Gaps(fired) ==
    [i \in 1..Len(fired) |->
        [bullet |-> fired[i].bullet, cooldown |-> fired[i].cooldown,
         gap |-> IF i > 1 THEN 0
                 ELSE IF hist.since_shot < 0 THEN -1
                 ELSE IF hist.since_shot + fired[i].elapsed
                            >= PLAYER_SHOOT_COOLDOWN
                      THEN PLAYER_SHOOT_COOLDOWN
                      ELSE hist.since_shot + fired[i].elapsed]]

\* the session after a call: r is what the handler produced, g the game,
\* elapsed the delta time a player update of the call consumed
Commit(r, g, elapsed) ==
    /\ sm' = r.this.spawn_manager
    /\ enemies' = r.this.enemies
    /\ player' = r.this.player
    /\ ps' = [score |-> r.this.score,
              is_new_high_score |-> r.this.is_new_high_score,
              player_bullets |-> r.this.player_bullets,
              enemy_bullets |-> r.this.enemy_bullets]
    /\ game_over' = r.this.game_over
    /\ in_wave_transition' = r.this.in_wave_transition
    /\ wave_transition_timer' = r.this.wave_transition_timer
    /\ dm' = r.dm
    /\ game' = g
    /\ hist' = [saves |-> hist.saves \o r.saves,
                fired |-> Gaps(r.fired),
                keys |-> IF "keys" \in DOMAIN r THEN r.keys ELSE << >>,
                since_shot |->
                    IF r.fired # << >> THEN 0
                    ELSE IF hist.since_shot < 0 THEN -1
                    ELSE IF hist.since_shot + elapsed >= PLAYER_SHOOT_COOLDOWN
                         THEN PLAYER_SHOOT_COOLDOWN
                         ELSE hist.since_shot + elapsed]
    /\ ret' = [NoReturn EXCEPT !.died = r.player_died,
                               !.points = r.this.score - ps.score]
    /\ advance_calls' =
           IF r.this.spawn_manager.current_wave # sm.current_wave
           THEN advance_calls + 1 ELSE advance_calls
    /\ waves_completed' =
           IF r.this.in_wave_transition /\ ~in_wave_transition
           THEN waves_completed + 1 ELSE waves_completed
    /\ NoteWaveStart(r.this.spawn_manager.current_wave # sm.current_wave)
    /\ UNCHANGED <<cm, foe>>

\* LoginState: a successful login, with the database as it is found
DM_login ==
    /\ op = "init"
    /\ ~is_logged_in(dm)
    /\ \E user_id \in Users, rows \in EarlierScores :
           dm' = login([dm EXCEPT !.high_scores = rows], user_id)
    /\ op' = "login"
    /\ UNCHANGED <<sm, enemies, in_wave_transition, wave_transition_timer,
                   game_over, advance_calls, waves_completed,
                   boss_level_at_wave_start, player, cm, ret, ps, game, hist,
                   foe>>

\* the KEYDOWN events of one frame of Game.run while this PlayingState is
\* the current state: Game._handle_global_events(events), then
\* current_state.handle_events(events)
Game_handle_events ==
    /\ Running
    /\ \E keys \in KeyLists(MaxEvents) :
         \E st \in {run_handle_events([this |-> This, game |-> game, dm |-> dm,
                                       fired |-> << >>], keys)} :
           /\ keys # << >>
           /\ BagCardinality(st.this.player_bullets) <= MaxFlight
           /\ Commit([Quiet(st.this, st.dm) EXCEPT !.fired = st.fired]
                         @@ [keys |-> IF game_over THEN keys ELSE << >>],
                     st.game, 0)
    /\ op' = "handle_events"

\* PlayingState.update(dt) while game_over is set
PS_update_game_over ==
    /\ Running
    /\ game_over
    /\ \E dt \in DTs, fire \in BOOLEAN :
           Commit(PlayingState_update(This, dm, dt, Calm(This, fire)), game, 0)
    /\ op' = "update_game_over"

\* PlayingState.update(dt) during a wave transition
PS_update_wave_transition ==
    /\ Running
    /\ ~game_over
    /\ in_wave_transition
    /\ \E dt \in DTs, fire \in BOOLEAN :
         \E r \in {PlayingState_update(This, dm, dt, Calm(This, fire))} :
           /\ r.this.spawn_manager.current_wave <= MaxPlayWave + 1
           /\ Commit(r, game, 0)
    /\ op' = "update_wave_transition"

\* PlayingState.update(dt) in play
PS_update_play ==
    /\ Running
    /\ ~game_over
    /\ ~in_wave_transition
    /\ sm.current_wave <= MaxPlayWave
    /\ \E dt \in DTs, fire \in BOOLEAN, kind \in PlayKinds :
         /\ sm.spawn_timer + dt <= MaxSpawnTimerSec * Second
         /\ player.time_since_damage + dt <= MaxQuietSec * Second
         /\ \E a0 \in {Advance(This, dt,
                               [Calm(This, fire) EXCEPT !.kind = kind])} :
              /\ a0.spawn_manager.enemies_spawned_this_wave
                    <= a0.spawn_manager.max_kills_this_wave + MaxSpawnSlack
              /\ \E lp \in SubBags(a0.player_bullets, 1),
                    le \in SubBags(a0.enemies, 1),
                    lb \in SubBags(a0.enemy_bullets, 1) :
                   /\ BossCount(le) = 0
                   /\ BagCardinality(a0.player_bullets (-) lp) <= MaxFlight
                   /\ \E sh \in SubBags(a0.enemies (-) le, MaxShooters) :
                        \E in1 \in {[fire |-> fire, kind |-> kind,
                                      left |-> [player_bullets |-> lp,
                                                enemies |-> le,
                                                enemy_bullets |-> lb],
                                      shooters |-> sh]} :
                         \E a \in {Moved(a0, in1, [player |-> a0.player,
                                                    bullets |-> EmptyBag],
                                          [sm |-> a0.spawn_manager,
                                           enemies |-> a0.enemies])} :
                          \E ids \in {Ids(AsSprites(a.enemies))} :
                            /\ BagCardinality(a.enemy_bullets) <= MaxEnemyFlight
                            /\ \E hits \in [1..BagCardinality(a.player_bullets)
                                              -> SUBSET ids],
                                  eb \in SubBags(a.enemy_bullets, 1),
                                  rams \in SUBSET ids :
                                \E in2 \in {in1 @@ [hits |-> hits,
                                                     eb_hits |-> eb,
                                                     rams |-> rams]} :
                                 \E r1 \in {PlayingState_update(
                                               This, dm, dt,
                                               in2 @@ [db_ok |-> TRUE])} :
                                  \/ Commit(r1, game, dt)
                                  \/ /\ r1.player_died
                                     /\ Commit(PlayingState_update(
                                                   This, dm, dt,
                                                   in2 @@ [db_ok |-> FALSE]),
                                               game, dt)
    /\ op' = "update_play"

NextPlay ==
    \/ DM_login
    \/ Game_handle_events
    \/ PS_update_game_over
    \/ PS_update_wave_transition
    \/ PS_update_play

SpecPlay == Init /\ [][NextPlay]_vars

(* --------------------------- shooting harness --------------------------- *)
\* the first seconds of a session, before the first enemy appears, frame by
\* frame: SPACE is pressed, held or left alone
ShotDTs == {Second \div 20, Second \div 10}

\* KEYDOWN events of SPACE in one frame
Shoot_handle_events ==
    /\ Running
    /\ \E n \in 1..MaxBurst :
         \E st \in {handle_events([this |-> This, game |-> game,
                                   fired |-> << >>],
                                  [i \in 1..n |-> "K_SPACE"])} :
           /\ BagCardinality(st.this.player_bullets) <= MaxFlight
           /\ Commit([Quiet(st.this, dm) EXCEPT !.fired = st.fired],
                     st.game, 0)
    /\ op' = "handle_events"

\* update(dt) with SPACE held or not; a bullet may leave the screen
Shoot_update ==
    /\ Running
    /\ \E dt \in ShotDTs, fire \in BOOLEAN :
         /\ sm.spawn_timer + dt < sm.spawn_interval
         /\ \E a0 \in {Advance(This, dt, Calm(This, fire))} :
              \E lp \in SubBags(a0.player_bullets, 1) :
                /\ BagCardinality(a0.player_bullets (-) lp) <= MaxFlight
                /\ Commit(PlayingState_update(
                              This, dm, dt,
                              [Calm(a0, fire) EXCEPT
                                 !.left.player_bullets = lp,
                                 !.hits = [b \in 1..BagCardinality(
                                               a0.player_bullets (-) lp)
                                             |-> {}]]),
                          game, dt)
    /\ op' = "update"

NextShoot ==
    \/ DM_login
    \/ Shoot_handle_events
    \/ Shoot_update

SpecShoot == Init /\ [][NextShoot]_vars

(* ---------------------------- enemy harness ----------------------------- *)
\* the calls a test makes on enemies it constructs itself: two enemies of one
\* kind at the same place, updated with the same delta times and each with
\* its own player position; a boss of some level and its penta shot

\* delta times of a frame at 60 FPS and of a frame twice as long
FrameDTs == {Second \div 60, Second \div 30}

\* where the enemies are constructed and where the player is said to be
StartPositions == {<<400, 100>>, <<200, 50>>}
PlayerPositions == {<<100, 500>>, <<700, 500>>}

\* the rest of the model, which the enemy harness leaves alone
EnemyFrame ==
    UNCHANGED <<sm, enemies, in_wave_transition, wave_transition_timer,
                game_over, advance_calls, waves_completed,
                boss_level_at_wave_start, player, cm, ret, ps, dm, game, hist>>

E_new_pair ==
    /\ op = "init"
    /\ \E kind \in {"zigzag", "basic"}, at \in StartPositions :
           foe' = [kind |-> kind,
                   first |-> NewMover(kind, at[1], at[2]),
                   second |-> NewMover(kind, at[1], at[2]),
                   updates |-> 0,
                   player_positions |-> << >>]
    /\ op' = "new_pair"
    /\ EnemyFrame

E_update_pair ==
    /\ foe.kind \in {"zigzag", "basic"}
    /\ foe.updates < MaxUpdates
    /\ \E dt \in FrameDTs, p1 \in PlayerPositions, p2 \in PlayerPositions :
           foe' = [foe EXCEPT
                     !.first = Enemy_update(@, dt, p1),
                     !.second = Enemy_update(@, dt, p2),
                     !.updates = @ + 1,
                     !.player_positions = <<p1, p2>>]
    /\ op' = "update_pair"
    /\ EnemyFrame

\* where a boss is constructed, the delta times of its updates (a frame
\* and a stalled frame) and those of the shooters' updates
BossStarts == {<<400, 50>>, <<400, 118>>}
BossDTs == {Second \div 60, Second}
ShooterDTs == {Second \div 2, Second}

\* bosses of two consecutive levels are constructed; the first is the one
\* the later calls are made on. quiet is the update time since the last
\* volley (or since construction), gap the quiet time that ended with the
\* last volley, -1 before the second volley
E_new_boss ==
    /\ op = "init"
    /\ \E boss_level \in 1..MaxBossLevel, at \in BossStarts :
           foe' = [kind |-> "boss",
                   boss |-> BossEnemy(at[1], at[2], boss_level),
                   next |-> BossEnemy(at[1], at[2], boss_level + 1),
                   bullets |-> << >>,
                   updates |-> 0, calls |-> 0, fired |-> FALSE,
                   volleys |-> 0, quiet |-> 0, gap |-> -1]
    /\ op' = "new_boss"
    /\ EnemyFrame

\* boss.update(dt, player_pos), as the loop over the enemies calls it
E_update_boss ==
    /\ foe.kind = "boss"
    /\ foe.boss.alive
    /\ foe.updates < MaxUpdates
    /\ \E dt \in BossDTs, player_pos \in PlayerPositions :
           foe' = [foe EXCEPT
                     !.boss = Enemy_update(@, dt, player_pos),
                     !.updates = @ + 1,
                     !.quiet = @ + dt]
    /\ op' = "update_boss"
    /\ EnemyFrame

\* boss.should_shoot() and, when it returns True, boss.create_bullet(...):
\* once after construction and once after each update
E_should_shoot_boss ==
    /\ foe.kind = "boss"
    /\ foe.boss.alive
    /\ foe.calls <= foe.updates
    /\ \E r \in {Boss_should_shoot(foe.boss)} :
           foe' = [foe EXCEPT
                     !.boss = r.enemy,
                     !.calls = @ + 1,
                     !.fired = r.fired,
                     !.bullets = IF r.fired THEN create_penta_shot(r.enemy)
                                 ELSE << >>,
                     !.volleys = IF r.fired THEN @ + 1 ELSE @,
                     !.gap = IF r.fired /\ foe.volleys > 0 THEN foe.quiet
                             ELSE @,
                     !.quiet = IF r.fired THEN 0 ELSE @]
    /\ op' = "should_shoot_boss"
    /\ EnemyFrame

\* an enemy that is no boss, built with the fire-rate multiplier of a
\* difficulty tier; can_shoot is what its class sets (Enemy's constructor
\* leaves it False, BasicEnemy and ZigzagEnemy set it)
Shooter(kind, tier, shoots) ==
    [NewMover(kind, 400, 100) EXCEPT
        !.fire_rate_multiplier = RPow(ENEMY_FIRE_RATE_SCALE, tier),
        !.can_shoot = shoots]

\* two enemies of one kind built on two difficulty tiers
E_new_shooters ==
    /\ op = "init"
    /\ \E kind \in {"zigzag", "basic"}, t1 \in 0..MaxFireTier,
          t2 \in 0..MaxFireTier, shoots \in BOOLEAN :
           foe' = [kind |-> "shooters",
                   first |-> Shooter(kind, t1, shoots),
                   second |-> Shooter(kind, t2, shoots),
                   updates |-> 0, calls |-> 0,
                   fired |-> <<FALSE, FALSE>>,
                   shots |-> <<0, 0>>, quiet |-> <<0, 0>>, gap |-> <<-1, -1>>]
    /\ op' = "new_shooters"
    /\ EnemyFrame

\* enemy.update(dt, player_pos) on both
E_update_shooters ==
    /\ foe.kind = "shooters"
    /\ foe.first.alive /\ foe.second.alive
    /\ foe.updates < MaxUpdates
    /\ \E dt \in ShooterDTs, player_pos \in PlayerPositions :
           foe' = [foe EXCEPT
                     !.first = Enemy_update(@, dt, player_pos),
                     !.second = Enemy_update(@, dt, player_pos),
                     !.updates = @ + 1,
                     !.quiet = <<@[1] + dt, @[2] + dt>>]
    /\ op' = "update_shooters"
    /\ EnemyFrame

\* enemy.should_shoot() on both, each with its own random draw
E_should_shoot ==
    /\ foe.kind = "shooters"
    /\ foe.first.alive /\ foe.second.alive
    /\ foe.calls <= foe.updates
    /\ \E d1 \in BOOLEAN, d2 \in BOOLEAN :
         \E r1 \in {should_shoot(foe.first, d1)},
            r2 \in {should_shoot(foe.second, d2)} :
           foe' = [foe EXCEPT
                     !.first = r1.enemy,
                     !.second = r2.enemy,
                     !.calls = @ + 1,
                     !.fired = <<r1.fired, r2.fired>>,
                     !.shots = <<@[1] + (IF r1.fired THEN 1 ELSE 0),
                                 @[2] + (IF r2.fired THEN 1 ELSE 0)>>,
                     !.gap = <<IF r1.fired /\ foe.shots[1] > 0
                               THEN foe.quiet[1] ELSE @[1],
                               IF r2.fired /\ foe.shots[2] > 0
                               THEN foe.quiet[2] ELSE @[2]>>,
                     !.quiet = <<IF r1.fired THEN 0 ELSE @[1],
                                 IF r2.fired THEN 0 ELSE @[2]>>]
    /\ op' = "should_shoot"
    /\ EnemyFrame

\* boss.create_penta_shot(bullet_sprite) on a boss just constructed
E_create_penta_shot ==
    /\ foe.kind = "boss"
    /\ foe.updates = 0 /\ foe.calls = 0
    /\ foe' = [foe EXCEPT !.bullets = create_penta_shot(foe.boss)]
    /\ op' = "create_penta_shot"
    /\ EnemyFrame

NextEnemies ==
    \/ E_new_pair
    \/ E_update_pair
    \/ E_new_boss
    \/ E_create_penta_shot
    \/ E_update_boss
    \/ E_should_shoot_boss
    \/ E_new_shooters
    \/ E_update_shooters
    \/ E_should_shoot

SpecEnemies == Init /\ [][NextEnemies]_vars

(* ---------------------------- properties -------------------------------- *)
Tier(s) == s.difficulty_tier

\* a boss wave whose regular quota is met while the boss has not been killed
BossQuotaOnly(s) ==
    /\ is_boss_wave(s)
    /\ s.enemies_killed_this_wave >= s.max_kills_this_wave
    /\ ~s.boss_killed

\* C1: in a play session a boss wave whose quota is met but whose boss was not
\* killed is not complete: is_wave_complete() is false, no wave transition is
\* running or starts without the boss kill, advance_wave is not called, and
\* the wave number leaves a boss wave only with boss_killed set.
C1_BossGatesWave ==
    [][ /\ BossQuotaOnly(sm) =>
             /\ ~is_wave_complete(sm, enemies)
             /\ ~in_wave_transition
             /\ sm'.current_wave = sm.current_wave
             /\ advance_calls' = advance_calls
             /\ (in_wave_transition' => sm'.boss_killed)
        /\ (is_boss_wave(sm) /\ sm'.current_wave # sm.current_wave)
             => sm.boss_killed ]_vars

C1_Witness ==
    /\ BossQuotaOnly(sm)
    /\ BossCount(enemies) = 1
    /\ op = "play"

\* C2: is_wave_complete() is true exactly when the kill quota is met and the
\* wave is not a boss wave or the boss was killed, whatever the enemy group
\* holds.
C2_WaveCompleteIff ==
    \A g \in {EmptyBag, enemies, AddToGroup(enemies, NewBoss(1))} :
        is_wave_complete(sm, g) <=>
            /\ sm.enemies_killed_this_wave >= sm.max_kills_this_wave
            /\ (sm.current_wave % BOSS_WAVE_INTERVAL # 0 \/ sm.boss_killed)

C2_Witness ==
    /\ sm.current_wave = BOSS_WAVE_INTERVAL
    /\ sm.enemies_killed_this_wave >= sm.max_kills_this_wave
    /\ sm.boss_killed
    /\ GroupLen(enemies) > 0

\* C3: an advance_wave call that enters wave w raises difficulty_tier by one
\* and multiplies both multipliers by their scale if w is a multiple of
\* DIFFICULTY_SCALE_INTERVAL and not a boss wave, and leaves all three
\* unchanged otherwise.
C3_TierStep ==
    [][ advance_calls' # advance_calls =>
          LET w == sm'.current_wave
          IN IF w % DIFFICULTY_SCALE_INTERVAL = 0 /\ w % BOSS_WAVE_INTERVAL # 0
             THEN /\ Tier(sm') = Tier(sm) + 1
                  /\ REq(sm'.bullet_speed_multiplier,
                         RMul(sm.bullet_speed_multiplier,
                              ENEMY_BULLET_SPEED_SCALE))
                  /\ REq(sm'.fire_rate_multiplier,
                         RMul(sm.fire_rate_multiplier, ENEMY_FIRE_RATE_SCALE))
             ELSE /\ Tier(sm') = Tier(sm)
                  /\ sm'.bullet_speed_multiplier = sm.bullet_speed_multiplier
                  /\ sm'.fire_rate_multiplier = sm.fire_rate_multiplier ]_vars

C3_Witness ==
    /\ op = "advance_wave"
    /\ sm.current_wave % DIFFICULTY_SCALE_INTERVAL = 0
    /\ sm.current_wave % BOSS_WAVE_INTERVAL = 0
    /\ Tier(sm) = 4

MultipliersMatchTier(s) ==
    /\ REq(s.bullet_speed_multiplier, RPow(ENEMY_BULLET_SPEED_SCALE, Tier(s)))
    /\ REq(s.fire_rate_multiplier, RPow(ENEMY_FIRE_RATE_SCALE, Tier(s)))

\* C4: after any sequence of advance_wave and update calls each multiplier is
\* its scale raised to difficulty_tier, and difficulty_tier never decreases.
C4_MultipliersCompound ==
    [][ /\ MultipliersMatchTier(sm)
        /\ MultipliersMatchTier(sm')
        /\ Tier(sm') >= Tier(sm) ]_vars

C4_Witness ==
    /\ Tier(sm) = 3
    /\ sm.current_wave > 3 * DIFFICULTY_SCALE_INTERVAL

C7_BossWaveIff ==
    [][ /\ is_boss_wave(sm') <=>
             (\E k \in 1..MaxWaveSM :
                  sm'.current_wave = k * BOSS_WAVE_INTERVAL)
        /\ \A a, b \in BOOLEAN :
             is_boss_wave([sm' EXCEPT !.boss_spawned = a, !.boss_killed = b])
                 = is_boss_wave(sm')
        /\ (is_boss_wave(sm') # is_boss_wave(sm))
             => sm'.current_wave # sm.current_wave ]_vars

C7_Witness ==
    /\ sm.current_wave = 2 * BOSS_WAVE_INTERVAL
    /\ ~sm.boss_spawned
    /\ op = "advance_wave"

\* boss_level has risen by one in a boss wave whose boss has been spawned and
\* not at all in any other wave
BossLevelStep(s, start) ==
    s.boss_level - start = IF is_boss_wave(s) /\ s.boss_spawned THEN 1 ELSE 0

C10_AdvanceWaveEffect ==
    [][ advance_calls' # advance_calls =>
          /\ sm'.current_wave = sm.current_wave + 1
          /\ sm'.enemies_killed_this_wave = 0
          /\ sm'.enemies_spawned_this_wave = 0
          /\ sm'.spawn_timer = 0
          /\ ~sm'.boss_spawned
          /\ ~sm'.boss_killed
          /\ sm'.max_kills_this_wave =
                 ENEMIES_PER_WAVE_BASE
                 + (sm'.current_wave - 1) * ENEMIES_PER_WAVE_INCREMENT
          /\ sm'.boss_level = sm.boss_level ]_vars

C10_Witness ==
    /\ op = "advance_wave"
    /\ sm.current_wave = BOSS_WAVE_INTERVAL + 1
    /\ sm.boss_level = 1

NonBossCount(g) == GroupLen(g) - BossCount(g)

\* C11: a call of update adds at most one regular enemy, and only when the
\* wave's kill quota is not yet met, fewer enemies are alive than max_alive
\* and the accumulated spawn timer has reached spawn_interval; the spawn
\* resets the timer to 0. Once the kill quota is met the call neither spawns
\* nor advances the timer.
C11_SpawnGate ==
    \A dt \in DTs, kind \in EnemyKinds :
        LET r == update(sm, enemies, dt, kind)
            added == NonBossCount(r.enemies) - NonBossCount(enemies)
        IN /\ added \in {0, 1}
           /\ added = 1 =>
                 /\ sm.enemies_killed_this_wave < sm.max_kills_this_wave
                 /\ GroupLen(r.enemies) <= sm.max_alive
                 /\ sm.spawn_timer + dt >= sm.spawn_interval
                 /\ r.sm.spawn_timer = 0
                 /\ r.sm.enemies_spawned_this_wave
                      = sm.enemies_spawned_this_wave + 1
           /\ added = 0 /\ sm.enemies_killed_this_wave < sm.max_kills_this_wave =>
                 /\ r.sm.spawn_timer = sm.spawn_timer + dt
                 /\ \/ GroupLen(r.enemies) >= sm.max_alive
                    \/ r.sm.spawn_timer < sm.spawn_interval
           /\ sm.enemies_killed_this_wave >= sm.max_kills_this_wave =>
                 /\ added = 0
                 /\ r.sm.spawn_timer = sm.spawn_timer

C11_Witness ==
    /\ op = "update"
    /\ GroupLen(enemies) = sm.max_alive
    /\ NonBossCount(enemies) > 0
    /\ sm.spawn_timer >= sm.spawn_interval
    /\ sm.enemies_killed_this_wave < sm.max_kills_this_wave

\* C12: a regular enemy spawned by update is of the archetype drawn and
\* carries the manager's current bullet-speed and fire-rate multipliers.
C12_SpawnCarriesMultipliers ==
    \A dt \in DTs, kind \in EnemyKinds :
        LET r == update(sm, enemies, dt, kind)
        IN \A e \in BagToSet(r.enemies (-) enemies) :
              ~IsBoss(e) =>
                 /\ e.kind = kind
                 /\ e.health = EnemyHealth(kind)
                 /\ REq(e.bullet_speed_multiplier, sm.bullet_speed_multiplier)
                 /\ REq(e.fire_rate_multiplier, sm.fire_rate_multiplier)

C12_Witness ==
    /\ op = "update"
    /\ sm.difficulty_tier = 1
    /\ \E e \in BagToSet(enemies) :
          /\ e.kind = "chaser"
          /\ REq(e.bullet_speed_multiplier, ENEMY_BULLET_SPEED_SCALE)
          /\ REq(e.fire_rate_multiplier, ENEMY_FIRE_RATE_SCALE)

\* a step of the named call
Called(fn) == op' = fn /\ vars' # vars

\* in the placement pl, the number of player bullets that overlap sprite i
HitCount(pl, i) ==
    Cardinality({b \in 1..pl.player_bullets : i \in pl.hits[b]})

\* C13: in one check_player_bullet_enemy_collisions call every enemy removed
\* is counted as one kill, however many bullets overlap it: the kill streak
\* grows by the number of enemies removed and the points are those of one
\* award per enemy removed.
C13_KillCountedOnce ==
    [][Called("check_player_bullet_enemy_collisions") =>
          LET removed == {e \in cm.enemies : e.id \notin Ids(cm'.enemies)}
              bonus(e) == (score_value(e) * STREAK_BONUS_MULTIPLIER[1])
                              \div STREAK_BONUS_MULTIPLIER[2]
          IN /\ player'.kill_streak
                   = player.kill_streak + Cardinality(removed)
             /\ Cardinality(removed) = 1 =>
                   \E e \in removed : ret'.points \in {score_value(e), bonus(e)}
    ]_vars

\* C14: a player bullet that overlaps an enemy is removed whether or not the
\* enemy dies; an overlapped enemy whose health is at most the bullet damage
\* is removed and the points are at least its score_value; an enemy that
\* survives stays with its health reduced by the damage of the bullets that
\* hit it, and a call in which no enemy dies returns 0 points and leaves the
\* player alone.
C14_BulletHitsEnemy ==
    [][Called("check_player_bullet_enemy_collisions") =>
          /\ cm'.player_bullets
                = Cardinality({b \in 1..cm.player_bullets : cm.hits[b] = {}})
          /\ \A e \in cm.enemies :
                LET n == HitCount(cm, e.id)
                IN /\ n = 0 => e \in cm'.enemies
                   /\ n >= 1 /\ e.health <= BULLET_DAMAGE =>
                         /\ e.id \notin Ids(cm'.enemies)
                         /\ ret'.points >= score_value(e)
                   /\ n >= 1 /\ e.health > n * BULLET_DAMAGE =>
                         [e EXCEPT !.health = @ - n * BULLET_DAMAGE]
                             \in cm'.enemies
          /\ (\A e \in cm.enemies :
                 e.health > HitCount(cm, e.id) * BULLET_DAMAGE) =>
                /\ ret'.points = 0
                /\ player' = player
                /\ Ids(cm'.enemies) = Ids(cm.enemies)
    ]_vars

C14_Witness ==
    /\ op = "check_player_bullet_enemy_collisions"
    /\ ret.points = BASIC_ENEMY_POINTS
    /\ cm.player_bullets = 0
    /\ Len(cm.hits) = 2
    /\ \E e \in cm.enemies :
          e.kind = "chaser" /\ e.health = EnemyHealth("chaser") - BULLET_DAMAGE

\* the points the claim gives a kill at the streak
C15_Points(streak, e) ==
    IF streak >= STREAK_BONUS_THRESHOLD
    THEN (score_value(e) * 3) \div 2
    ELSE score_value(e)

\* C15: a kill earns int(score_value * 1.5) if the kill streak is at least
\* STREAK_BONUS_THRESHOLD when the enemy dies and score_value otherwise; the
\* streak is read before the kill is added to it, so of two kills in one call
\* the second is paid at the streak the first one left.
C15_StreakBonus ==
    [][Called("check_player_bullet_enemy_collisions") =>
          LET order == HitList(cm.hits, 1)
              victim(j) == CHOOSE e \in cm.enemies : e.id = order[j]
              dies(j) == victim(j).health <= BULLET_DAMAGE
          IN /\ Len(order) = 1 /\ dies(1) =>
                   ret'.points = C15_Points(player.kill_streak, victim(1))
             /\ Len(order) = 2 /\ order[1] # order[2] /\ dies(1) /\ dies(2) =>
                   ret'.points
                     = C15_Points(player.kill_streak, victim(1))
                       + C15_Points(player.kill_streak + 1, victim(2))
    ]_vars

C15_Witness ==
    /\ op = "check_player_bullet_enemy_collisions"
    /\ player.kill_streak = STREAK_BONUS_THRESHOLD + 1
    /\ Len(HitList(cm.hits, 1)) = 2
    /\ ret.points = BASIC_ENEMY_POINTS + (BASIC_ENEMY_POINTS * 3) \div 2
    /\ cm.enemies = {}

\* C16: every take_damage call on a player that is not invincible, the one
\* that costs a life and the one that kills included, leaves kill_streak at 0,
\* the player invincible for PLAYER_INVINCIBILITY_DURATION and
\* time_since_damage at 0.
C16_DamageResets ==
    [][Called("take_damage") /\ ~player.invincible =>
          /\ player'.kill_streak = 0
          /\ player'.invincible
          /\ player'.invincibility_timer = PLAYER_INVINCIBILITY_DURATION
          /\ player'.time_since_damage = 0
    ]_vars

\* C17: while the player is invincible, a direct take_damage, an enemy-bullet
\* check and a ramming check leave the player's health, lives, kill_streak
\* and time_since_damage as they are and report that the player did not die;
\* so does the damage part of check_all_collisions, whose kills may still
\* add to the streak.
C17_InvincibleUntouched ==
    player.invincible =>
      /\ \A amount \in DamageAmounts :
            take_damage(player, amount) = [player |-> player, died |-> FALSE]
      /\ \A a \in BulletArrangements :
            LET r == check_enemy_bullet_player_collisions(
                         a.enemy_bullets, a.eb_hits, player)
            IN r.player = player /\ ~r.died
      /\ \A a \in RamArrangements :
            LET r == check_enemy_player_collisions(a.enemies, a.rams, player)
            IN r.player = player /\ ~r.died
      /\ \A a \in TickArrangements :
            LET r == check_all_collisions(player, a.player_bullets, a.enemies,
                                          a.enemy_bullets, a.hits, a.eb_hits,
                                          a.rams)
            IN /\ ~r.player_died
               /\ r.player.kill_streak >= player.kill_streak
               /\ [r.player EXCEPT !.kill_streak = player.kill_streak] = player

C17_Witness ==
    /\ op = "check_enemy_player_collisions"
    /\ ret.invincible_before
    /\ ret.rammed >= 1
    /\ ~ret.died
    /\ player.kill_streak > 0
    /\ player.health < player.max_health

\* C18: a check_enemy_bullet_player_collisions call removes every enemy
\* bullet that overlaps the player, invincible or not, and a player that is
\* not invincible takes ENEMY_BULLET_DAMAGE once, however many bullets overlap.
C18_OneBulletHit ==
    \A a \in BulletArrangements :
        LET r == check_enemy_bullet_player_collisions(
                     a.enemy_bullets, a.eb_hits, player)
            once == take_damage(player, ENEMY_BULLET_DAMAGE)
        IN /\ r.enemy_bullets = a.enemy_bullets - a.eb_hits
           /\ IF a.eb_hits >= 1 /\ ~player.invincible
              THEN /\ r.player = once.player
                   /\ r.died = once.died
                   /\ player.health > ENEMY_BULLET_DAMAGE =>
                         /\ r.player.health
                              = player.health - ENEMY_BULLET_DAMAGE
                         /\ r.player.lives = player.lives
              ELSE r.player = player /\ ~r.died

C18_Witness ==
    /\ op = "check_enemy_bullet_player_collisions"
    /\ ~ret.invincible_before
    /\ ret.bullets_removed = 2
    /\ player.health = PLAYER_MAX_HEALTH - ENEMY_BULLET_DAMAGE
    /\ player.lives = PLAYER_MAX_LIVES

\* C19: a check_enemy_player_collisions call removes every enemy that
\* overlaps the player, whatever its health and kind, the boss included, and
\* whether or not the player is invincible; a player that is not invincible
\* takes 1.5 times ENEMY_BULLET_DAMAGE once.
C19_RamRemovesEnemy ==
    \A a \in RamArrangements :
        LET r == check_enemy_player_collisions(a.enemies, a.rams, player)
        IN /\ r.enemies = {e \in a.enemies : e.id \notin a.rams}
           /\ IF a.rams # {} /\ ~player.invincible
              THEN \E amount \in 1..PLAYER_MAX_HEALTH :
                     /\ 2 * amount = 3 * ENEMY_BULLET_DAMAGE
                     /\ r.player = take_damage(player, amount).player
                     /\ r.died = take_damage(player, amount).died
                     /\ player.health > amount =>
                           /\ r.player.health = player.health - amount
                           /\ r.player.lives = player.lives
              ELSE r.player = player /\ ~r.died

C19_Witness ==
    /\ op = "check_enemy_player_collisions"
    /\ ret.invincible_before
    /\ ret.rammed = 2
    /\ ret.boss_rammed

\* health and lives after a damage of the amount that no invincibility stops
Drain(p, amount) ==
    IF p.health - amount > 0
    THEN [health |-> p.health - amount, lives |-> p.lives]
    ELSE IF p.lives - 1 > 0
         THEN [health |-> PLAYER_MAX_HEALTH, lives |-> p.lives - 1]
         ELSE [health |-> 0, lives |-> p.lives - 1]

\* C20 as stated: when a player that is not invincible overlaps an enemy
\* bullet and an enemy in the same check_all_collisions call, the bullet
\* damage and the ram damage are both taken from the player.
C20_Original ==
    [][/\ Called("check_all_collisions")
       /\ ~player.invincible
       /\ ret'.bullets_removed >= 1
       /\ ret'.rammed >= 1
       => LET both == Drain(Drain(player, ENEMY_BULLET_DAMAGE), RamDamage)
          IN /\ player'.health = both.health
             /\ player'.lives = both.lives
    ]_vars

\* C20 amended: in that case the bullet damage is taken; the ram damage is
\* taken as well only if the bullet hit took the last life, otherwise the
\* bullet hit has made the player invincible and the ram takes nothing from
\* the player, whose ramming enemy is removed all the same.
C20_Amended ==
    [][/\ Called("check_all_collisions")
       /\ ~player.invincible
       /\ ret'.bullets_removed >= 1
       /\ ret'.rammed >= 1
       => LET bullet == Drain(player, ENEMY_BULLET_DAMAGE)
              both == Drain(bullet, RamDamage)
          IN IF bullet.lives > 0
             THEN /\ player'.health = bullet.health
                  /\ player'.lives = bullet.lives
                  /\ player'.invincible
                  /\ ~ret'.died
             ELSE /\ player'.health = both.health
                  /\ player'.lives = both.lives
                  /\ ~player'.invincible
                  /\ ret'.died
    ]_vars

C20_Witness ==
    /\ op = "check_all_collisions"
    /\ ~ret.invincible_before
    /\ ret.bullets_removed >= 1
    /\ ret.rammed >= 1
    /\ player.health = PLAYER_MAX_HEALTH - ENEMY_BULLET_DAMAGE
    /\ player.lives = PLAYER_MAX_LIVES
    /\ player.invincible

\* the take_damage calls made from the current state on a player that is not
\* invincible: a caller's own, and the one the ramming check of a
\* check_all_collisions call makes after that call's enemy-bullet check
TakeDamageCalls ==
    {[p |-> player, amount |-> amount] : amount \in DamageAmounts}
    \cup {[p |-> check_enemy_bullet_player_collisions(
                     a.enemy_bullets, a.eb_hits,
                     check_player_bullet_enemy_collisions(
                         a.player_bullets, a.enemies, a.hits, player).player
                 ).player,
           amount |-> RamDamage] :
            a \in {x \in TickArrangements :
                     x.rams # {} /\ \A b \in 1..x.player_bullets :
                                       x.hits[b] = {}}}

\* C21: take_damage on a player that is not invincible subtracts the amount
\* from health; when health drops to 0 or below exactly one life is deducted
\* and, if lives remain, health is max_health again with no damage carried
\* over; the call returns true exactly when it brings lives to 0, and health
\* is then 0.
C21_LifeFunnel ==
    is_alive(player) =>
      \A c \in {x \in TakeDamageCalls : ~x.p.invincible} :
          LET d == take_damage(c.p, c.amount)
              q == d.player
          IN /\ IF c.p.health - c.amount > 0
                THEN /\ q.health = c.p.health - c.amount
                     /\ q.lives = c.p.lives
                ELSE /\ q.lives = c.p.lives - 1
                     /\ q.health = IF q.lives > 0 THEN q.max_health ELSE 0
             /\ d.died <=> (q.lives = 0 /\ c.p.lives # 0)
             /\ d.died => q.health = 0

\* C22: in every reachable state of a play session the player's lives are
\* within 0..max_lives and the health within 0..max_health, also after a
\* lethal bullet hit followed by a ram in the same tick.
C22_LifeInRange ==
    /\ player.lives \in 0..PLAYER_MAX_LIVES
    /\ player.health \in 0..player.max_health

\* C23: a tick whose collision check reports the death sets game_over, and
\* once game_over is set no call changes the score, the spawn manager, the
\* groups or the player, and none fires a shot.
C23_DeadIsTerminal ==
    [][/\ ret'.died => game_over'
       /\ game_over =>
            /\ game_over'
            /\ sm' = sm
            /\ enemies' = enemies
            /\ player' = player
            /\ ps' = ps
            /\ hist'.fired = << >>]_vars

C23_Witness ==
    /\ game_over
    /\ op = "update_game_over"
    /\ ps.enemy_bullets # EmptyBag
    /\ GroupLen(enemies) > 0

\* C24: save_score is called once, in the tick of the death and with the
\* score of that tick included, and not before; a save that returns false
\* leaves the score, game_over and the table as they are.
C24_SaveOnceAtGameOver ==
    /\ Len(hist.saves) = IF game_over THEN 1 ELSE 0
    /\ game_over =>
         /\ hist.saves[1].score = ps.score
         /\ IF hist.saves[1].ok
            THEN /\ Len(dm.high_scores) = 2
                 /\ dm.high_scores[2].score = ps.score
                 /\ dm.high_scores[2].user_id \in Users
                 /\ is_logged_in(dm) =>
                        dm.high_scores[2].user_id = dm.current_user_id
            ELSE dm.high_scores \in EarlierScores

C24_Witness ==
    /\ game_over
    /\ ~hist.saves[1].ok
    /\ ps.score > 0
    /\ ret.points > 0

\* C28: in a tick in play the wave completion is evaluated on the counters
\* that already hold the kills of the tick, the collisions act on the player
\* the player update left (a hit restarts time_since_damage and the full
\* invincibility window is still there at the end of the tick), the held-key
\* shot follows the cooldown update, and an enemy spawned in the tick is
\* subject to the collisions of the tick.
C28_TickOrder ==
    [][op' = "update_play" =>
         /\ in_wave_transition' <=> is_wave_complete(sm', enemies')
         /\ (player'.health < player.health \/ player'.lives < player.lives) =>
              /\ player'.time_since_damage = 0
              /\ player'.lives > 0 =>
                     player'.invincibility_timer = PLAYER_INVINCIBILITY_DURATION
         /\ hist'.fired # << >> =>
              player'.shoot_cooldown = PLAYER_SHOOT_COOLDOWN
         /\ sm'.enemies_spawned_this_wave > sm.enemies_spawned_this_wave =>
              sm'.spawn_timer = 0]_vars

\* an enemy is spawned and killed in one tick, and that kill completes the wave
C28_Witness ==
    /\ op = "update_play"
    /\ sm.spawn_timer = 0
    /\ sm.enemies_killed_this_wave = sm.enemies_spawned_this_wave
    /\ sm.enemies_killed_this_wave = sm.max_kills_this_wave
    /\ in_wave_transition

\* C29: two zigzag enemies constructed at the same place and updated with the
\* same delta times are at the same x after every update, whatever player
\* positions each was given; a basic enemy keeps the velocity (0, speed).
C29_IgnoresPlayer ==
    /\ foe.kind = "zigzag" =>
         /\ foe.first.position[1] = foe.second.position[1]
         /\ foe.first = foe.second
    /\ foe.kind = "basic" =>
         /\ foe.first.velocity = <<0, EnemySpeed("basic")>>
         /\ foe.second.velocity = <<0, EnemySpeed("basic")>>
         /\ foe.first.position = foe.second.position

C29_Witness ==
    /\ foe.kind = "zigzag"
    /\ foe.updates = MaxUpdates
    /\ foe.player_positions[1] # foe.player_positions[2]
    /\ foe.first.velocity[1] > 0
    /\ foe.first.position[1] > 1000 * 400

\* C30: create_penta_shot returns 5 bullets owned by "enemy", with pairwise
\* different velocities, one common downward component and horizontal
\* components symmetric about 0, for every boss level.
C30_PentaShot ==
    (foe.kind = "boss" /\ op = "create_penta_shot") =>
        LET bullets == foe.bullets
            vx(i) == bullets[i].velocity[1]
            vy(i) == bullets[i].velocity[2]
        IN /\ Len(bullets) = 5
           /\ \A i \in 1..5 :
                /\ bullets[i].owner = "enemy"
                /\ RSame(vy(i), vy(1))
                /\ vy(i)[1] > 0 /\ vy(i)[2] > 0
                /\ RSame(vx(i), <<-vx(6 - i)[1], vx(6 - i)[2]>>)
           /\ \A i \in 1..5, j \in 1..5 :
                i # j => ~(RSame(vx(i), vx(j)) /\ RSame(vy(i), vy(j)))

C30_Witness ==
    /\ foe.kind = "boss"
    /\ op = "create_penta_shot"
    /\ foe.boss.level = 3
    /\ Len(foe.bullets) = 5
    /\ foe.bullets[1].velocity[1][1] < 0

\* C25: a shot is fired only when the cooldown is at or below 0, it sets the
\* cooldown to PLAYER_SHOOT_COOLDOWN and adds one upward bullet owned by the
\* player; between two consecutive shots, by the key-down event or by the
\* held key, the player updates consume at least PLAYER_SHOOT_COOLDOWN.
C25_ShotsSpaced ==
    [][/\ Len(hist'.fired) <= 1
       /\ \A i \in 1..Len(hist'.fired) :
            LET f == hist'.fired[i]
            IN /\ f.cooldown <= 0
               /\ f.bullet.owner = "player"
               /\ f.bullet.velocity[1][1] = 0
               /\ f.bullet.velocity[2][1] * f.bullet.velocity[2][2] < 0
               /\ f.gap = -1 \/ f.gap >= PLAYER_SHOOT_COOLDOWN
               /\ player'.shoot_cooldown = PLAYER_SHOOT_COOLDOWN
       /\ op' = "handle_events" =>
            BagCardinality(ps'.player_bullets)
              = BagCardinality(ps.player_bullets) + Len(hist'.fired)]_vars

\* a shot of the held key exactly when the cooldown of the shot before ran out
C25_Witness ==
    /\ op = "update"
    /\ hist.fired # << >>
    /\ hist.fired[1].gap = PLAYER_SHOOT_COOLDOWN
    /\ hist.fired[1].cooldown = 0

\* C26: in a player update the health rises only if time_since_damage has
\* then reached PLAYER_HEALTH_REGEN_DELAY, the health is never above
\* max_health, and every damage taken while not invincible sets
\* time_since_damage to 0.
C26_RegenAfterDelay ==
    [][/\ player'.health <= player'.max_health
       /\ op' = "player_update" =>
            /\ player'.health >= player.health
            /\ player'.health > player.health =>
                   player'.time_since_damage >= PLAYER_HEALTH_REGEN_DELAY
       /\ (op' = "take_damage" /\ ~player.invincible) =>
              player'.time_since_damage = 0
       /\ (op' # "player_update"
             /\ (player'.health # player.health
                   \/ player'.lives # player.lives)) =>
              player'.time_since_damage = 0]_vars

\* the health PLAYER_MAX_HEALTH minus half a point is only reached by a
\* regeneration (the damages are 1, 1.5 and the whole health)
C26_Witness ==
    /\ op = "player_update"
    /\ player.health = PLAYER_MAX_HEALTH - 1
    /\ player.time_since_damage >= PLAYER_HEALTH_REGEN_DELAY

\* C27: a damage that leaves the player alive makes it invincible with the
\* timer at PLAYER_INVINCIBILITY_DURATION; an update takes its delta time off
\* the timer and the player is invincible after it exactly if the timer is
\* still above 0; nothing else ends or prolongs the window; invincible
\* implies invincibility_timer > 0 in every state.
C27_InvincibilityWindow ==
    [][/\ player'.invincible => player'.invincibility_timer > 0
       /\ (op' # "player_update"
             /\ (player'.health # player.health
                   \/ player'.lives # player.lives)
             /\ player'.lives > 0) =>
              /\ player'.invincible
              /\ player'.invincibility_timer = PLAYER_INVINCIBILITY_DURATION
       /\ (op' = "player_update" /\ player.invincible) =>
              /\ player'.invincibility_timer < player.invincibility_timer
              /\ player'.invincible <=> player'.invincibility_timer > 0
       /\ (op' # "player_update" /\ player.invincible) =>
              /\ player'.invincible
              /\ player'.invincibility_timer = player.invincibility_timer]_vars

\* the window has ended with the second update of one second after the hit
C27_Witness ==
    /\ op = "player_update"
    /\ ~player.invincible
    /\ player.invincibility_timer = PLAYER_INVINCIBILITY_DURATION - 2 * Second
    /\ player.time_since_damage = 2 * Second

\* the product BOSS_BASE_HEALTH * BOSS_HEALTH_MULTIPLIER^(n-1) as a fraction
BossHealthProduct(n) ==
    <<BOSS_BASE_HEALTH * Pow(BOSS_HEALTH_MULTIPLIER[1], n - 1),
      Pow(BOSS_HEALTH_MULTIPLIER[2], n - 1)>>

\* C31 as stated: the boss of level n has health BOSS_BASE_HEALTH *
\* BOSS_HEALTH_MULTIPLIER^(n-1), less than the health of the boss of level
\* n + 1; its score value is BOSS_POINTS * n; its firing period is above that
\* of the boss of level n + 1.
C31_Original ==
    foe.kind = "boss" =>
        LET n == foe.boss.level
        IN /\ foe.boss.health * BossHealthProduct(n)[2] = BossHealthProduct(n)[1]
           /\ foe.next.level = n + 1
           /\ foe.boss.health < foe.next.health
           /\ foe.boss.score_value = BOSS_POINTS * n
           /\ score_value(foe.boss) = BOSS_POINTS * n
           /\ foe.boss.fire_rate > foe.next.fire_rate

\* C31 amended: the boss of level n has as health the integer part of
\* BOSS_BASE_HEALTH * BOSS_HEALTH_MULTIPLIER^(n-1), less than the health of
\* the boss of level n + 1; its score value is BOSS_POINTS * n; its firing
\* period is positive and above that of the boss of level n + 1.
C31_Amended ==
    foe.kind = "boss" =>
        LET n == foe.boss.level
            h == foe.boss.health
        IN /\ h * BossHealthProduct(n)[2] <= BossHealthProduct(n)[1]
           /\ BossHealthProduct(n)[1] < (h + 1) * BossHealthProduct(n)[2]
           /\ foe.next.level = n + 1
           /\ h < foe.next.health
           /\ foe.boss.score_value = BOSS_POINTS * n
           /\ score_value(foe.boss) = BOSS_POINTS * n
           /\ foe.boss.fire_rate > foe.next.fire_rate
           /\ foe.next.fire_rate > 0

\* the bosses of levels 3 and 4 have been constructed: health 4 (of 4.5) and 6
C31_Witness ==
    /\ op = "new_boss"
    /\ foe.kind = "boss"
    /\ foe.boss.level = 3 /\ foe.boss.health = 4
    /\ foe.next.health = 6
    /\ foe.boss.score_value = 3 * BOSS_POINTS

\* C32: a should_shoot() call on a boss returns true exactly when its
\* shoot_timer is at or below 0, whatever else the state is; a call that
\* returns true sets shoot_timer to fire_rate and is followed by one penta
\* shot of five enemy bullets, a call that returns false changes nothing and
\* fires nothing; the update time between construction and the first volley
\* and between two consecutive volleys is at least fire_rate.
C32_BossFiresOnTimer ==
    [][(op' = "should_shoot_boss" /\ foe'.calls = foe.calls + 1) =>
          /\ foe'.fired <=> foe.boss.shoot_timer <= 0
          /\ foe'.fired =>
                /\ foe'.boss = [foe.boss EXCEPT !.shoot_timer = foe.boss.fire_rate]
                /\ foe'.bullets = create_penta_shot(foe.boss)
                /\ Len(foe'.bullets) = 5
                /\ \A i \in 1..5 : foe'.bullets[i].owner = "enemy"
                /\ foe'.volleys = foe.volleys + 1
                /\ foe.quiet >= foe.boss.fire_rate
                /\ foe.volleys > 0 => foe'.gap = foe.quiet
          /\ ~foe'.fired =>
                /\ foe'.boss = foe.boss
                /\ foe'.bullets = << >>
                /\ foe'.volleys = foe.volleys]_vars

\* the second volley of a boss, two seconds of update time after the first
C32_Witness ==
    /\ op = "should_shoot_boss"
    /\ foe.kind = "boss"
    /\ foe.fired
    /\ foe.volleys = 2
    /\ foe.gap = 2 * Second
    /\ foe.boss.shoot_timer = foe.boss.fire_rate
    /\ Len(foe.bullets) = 5

\* C33: an update of a boss that is at or below its top offset (y >= 120)
\* leaves it on the offset with vertical velocity 0, for every player position
\* and every delta time; and an update removes a boss only when the top of
\* its rect is then more than 200 below the screen, however far to the side
\* it is.
C33_BossStaysAtTop ==
    [][op' = "update_boss" =>
          /\ foe.boss.position[2] >= BossTargetY =>
                /\ foe'.boss.position[2] = BossTargetY
                /\ foe'.boss.velocity[2] = 0
          /\ foe'.boss.velocity[1] = 0
          /\ ~foe'.boss.alive =>
                RectOf(foe'.boss).top > SCREEN_HEIGHT + 200
          /\ RectOf(foe'.boss).top <= SCREEN_HEIGHT + 200 =>
                foe'.boss.alive]_vars

\* a boss on its offset after four updates, carried beyond the right margin
\* at which other enemies are removed, and still alive
C33_Witness ==
    /\ op = "update_boss"
    /\ foe.kind = "boss"
    /\ foe.updates = 4
    /\ foe.boss.position[2] = BossTargetY
    /\ foe.boss.velocity[2] = 0
    /\ RectOf(foe.boss).left > SCREEN_WIDTH + 50
    /\ foe.boss.alive

\* C37: the first should_shoot() call on a newly constructed boss, made
\* before any update, returns true.
C37_ReadyAtStart ==
    (op = "should_shoot_boss" /\ foe.updates = 0 /\ foe.calls = 1) => foe.fired

\* the cooldown Enemy.should_shoot sets: base_cooldown * fire_rate_multiplier
Cooldown(e) ==
    (base_cooldown * e.fire_rate_multiplier[1]) \div e.fire_rate_multiplier[2]

\* order of two fractions with positive denominators
RLeq(a, b) == a[1] * b[2] <= b[1] * a[2]

\* what C38 says of one enemy across a should_shoot() call: e before, f after
ShotRespectsCooldown(e, f, fired, shots, quiet) ==
    /\ fired => /\ e.can_shoot
                /\ e.shoot_timer <= 0
                /\ f = [e EXCEPT !.shoot_timer = Cooldown(e)]
                /\ f.shoot_timer <= base_cooldown
                /\ shots > 0 => quiet >= Cooldown(e)
    /\ ~fired => f = e

\* C38: an enemy that is no boss does not shoot while its shoot_timer is
\* above 0 or its can_shoot is false; a shot sets its shoot_timer to
\* 2.0 * fire_rate_multiplier and nothing else, a call without a shot changes
\* nothing; the update time between two consecutive shots of one enemy is at
\* least that cooldown; of two enemies that shoot, the one with the lower
\* fire_rate_multiplier does not get the longer cooldown.
C38_ShotRespectsCooldown ==
    [][(op' = "should_shoot" /\ foe'.calls = foe.calls + 1) =>
          /\ ShotRespectsCooldown(foe.first, foe'.first, foe'.fired[1],
                                  foe.shots[1], foe.quiet[1])
          /\ ShotRespectsCooldown(foe.second, foe'.second, foe'.fired[2],
                                  foe.shots[2], foe.quiet[2])
          /\ (/\ foe'.fired[1] /\ foe'.fired[2]
              /\ RLeq(foe.first.fire_rate_multiplier,
                      foe.second.fire_rate_multiplier)) =>
                 foe'.first.shoot_timer <= foe'.second.shoot_timer]_vars

\* the second shots of two enemies built on tiers 2 and 0, two seconds of
\* update time after their first shots
C38_Witness ==
    /\ op = "should_shoot"
    /\ foe.kind = "shooters"
    /\ foe.fired = <<TRUE, TRUE>>
    /\ foe.shots = <<2, 2>>
    /\ foe.gap = <<2 * Second, 2 * Second>>
    /\ foe.first.fire_rate_multiplier = <<81, 100>>
    /\ foe.second.fire_rate_multiplier = One
    /\ foe.first.shoot_timer = (81 * Second) \div 50
    /\ foe.second.shoot_timer = 2 * Second

\* C34: in every state of a boss wave in which boss_spawned is set and no
\* boss is in the enemy group, boss_killed is set.
C34_BossGoneIsKilled ==
    (is_boss_wave(sm) /\ sm.boss_spawned /\ BossCount(enemies) = 0) =>
        sm.boss_killed

\* C35: in every state of a play session at most ENEMIES_ON_SCREEN_MAX
\* enemies are alive, the boss counted with the others, and at most one of
\* them is a boss.
C35_LiveEnemiesCapped ==
    /\ GroupLen(enemies) <= ENEMIES_ON_SCREEN_MAX
    /\ GroupLen(enemies) <= sm.max_alive
    /\ BossCount(enemies) <= 1

\* a boss wave in play with the boss and as many regular enemies as the cap
\* leaves room for
C35_Witness ==
    /\ op = "play"
    /\ is_boss_wave(sm)
    /\ BossCount(enemies) = 1
    /\ GroupLen(enemies) = ENEMIES_ON_SCREEN_MAX
    /\ sm.enemies_spawned_this_wave >= 1

(* ---------------------------- wave transition --------------------------- *)
\* C36: the update in which a wave completes removes every player bullet,
\* enemy bullet and enemy and starts the transition with its timer at zero;
\* an update during the transition leaves the enemies, the bullets, the
\* score, the player (health and lives included) and the spawner as they
\* are and only accumulates the timer, until the accumulated time reaches
\* WAVE_CLEAR_DELAY: that update, and no earlier one, ends the transition
\* and advances the wave; events handled during the transition change
\* neither the score, the health, the lives, the enemies nor the spawner
C36_TransitionFreezesPlay ==
    [][/\ (~in_wave_transition /\ in_wave_transition')
            => /\ op' = "update_play"
               /\ ps'.player_bullets = EmptyBag
               /\ ps'.enemy_bullets = EmptyBag
               /\ enemies' = EmptyBag
               /\ wave_transition_timer' = 0
       /\ (in_wave_transition /\ in_wave_transition')
            => /\ enemies' = enemies
               /\ ps'.enemy_bullets = ps.enemy_bullets
               /\ ps'.score = ps.score
               /\ player'.health = player.health
               /\ player'.lives = player.lives
               /\ sm' = sm
               /\ wave_transition_timer' < WAVE_CLEAR_DELAY
       /\ (in_wave_transition
           /\ op' \in {"update_wave_transition", "update_game_over"})
            => /\ enemies' = enemies
               /\ ps' = ps
               /\ player' = player
               /\ \/ /\ in_wave_transition'
                     /\ sm' = sm
                     /\ wave_transition_timer' >= wave_transition_timer
                     /\ game_over \/ wave_transition_timer'
                                        > wave_transition_timer
                  \/ /\ ~in_wave_transition'
                     /\ ~game_over
                     /\ \E dt \in DTs :
                            wave_transition_timer + dt >= WAVE_CLEAR_DELAY
                     /\ sm' = advance_wave(sm)
                     /\ wave_transition_timer' = 0
       /\ (in_wave_transition /\ ~in_wave_transition')
            => op' = "update_wave_transition"]_vars

\* a transition that lasted WAVE_CLEAR_DELAY has just ended: the first wave
\* was completed and the update advanced the spawner to the second
C36_Witness ==
    /\ op = "update_wave_transition"
    /\ ~in_wave_transition
    /\ waves_completed = 1
    /\ sm.current_wave = 2
    /\ enemies = EmptyBag
    /\ ps.score > 0

(* --------------------------- game-over screen --------------------------- *)
\* the states a restart or a start from the menu installs: a PlayingState
\* fresh from its constructor
FreshPlayingStates == {"PlayingState (restarted)", "PlayingState (started)"}

\* C39: on the game-over screen, after the frame that processes the key, R
\* has made a fresh PlayingState the current state of the running game, M
\* has made the MenuState the current state, and ESC has stopped the loop
C39_GameOverKeys ==
    [][(Running /\ game_over /\ op' = "handle_events"
        /\ Len(hist'.keys) = 1)
          => /\ hist'.keys[1] = "K_r"
                  => /\ game'.current_state \in FreshPlayingStates
                     /\ game'.running
             /\ hist'.keys[1] = "K_m"
                  => /\ game'.current_state = "MenuState"
                     /\ game'.running
             /\ hist'.keys[1] = "K_ESCAPE" => ~game'.running]_vars

====
